---- MODULE Spec2Model ----
(***************************************************************************)
(* Habitus Forecast: the scenario derivation engine.                       *)
(*                                                                         *)
(* Two classes named ScenarioGenerator exist in the repository:            *)
(*   app/services/scenario_generator.py  (generate_scenario, used by the   *)
(*                                        HTTP endpoint)                   *)
(*   app/services/scenario_service.py    (generate_*_scenario, used by the *)
(*                                        unit tests)                      *)
(* The variable "module" records which of the two was constructed.         *)
(*                                                                         *)
(* Numbers.  The code computes in binary floating point.  The model uses   *)
(* integers: money amounts are integers, multipliers are in thousandths    *)
(* (0.85 is 850, 1.10 is 1100, an adjustment of -0.15 is -150).  The input  *)
(* amounts are multiples of 12000 and the parameters multiples of 10, so   *)
(* that every product by a multiplier and every division by a row count    *)
(* is exact.                                                               *)
(*                                                                         *)
(* Tables.  A pandas DataFrame is a record                                 *)
(*   nrows : number of rows                                                *)
(*   cols  : the numeric columns, in column order                          *)
(*   cell  : numeric column label -> row -> amount                         *)
(*   txt   : the non-numeric columns, in column order                      *)
(*   text  : non-numeric column label -> row -> string                     *)
(*   kind  : "DataFrame", or "list" / "dict" for a list of records / one   *)
(*           record that pd.DataFrame(...) turns into this table           *)
(* A dataset (dict of DataFrames) is a function from category ids to       *)
(* tables; its insertion order is the order of CategoryOrder.              *)
(***************************************************************************)
EXTENDS Integers, Sequences, FiniteSets, TLC

VARIABLES module, hashOrder, input, financial_data, scenarios,
          scenarios_generated, response, calls, workbook, sheet_categories,
          processor, result, export, db, requests

vars == <<module, hashOrder, input, financial_data, scenarios,
          scenarios_generated, response, calls, workbook, sheet_categories,
          processor, result, export, db, requests>>

\* the state of the spreadsheet extraction
excel == <<workbook, sheet_categories, processor, result, export, db, requests>>

\* the state of the scenario generators
generator == <<hashOrder, input, financial_data, scenarios, scenarios_generated, response>>

\* the state of the database and of the requests in flight
web == <<db, requests>>

(***************************************************************************)
(* Bounds of the model.                                                    *)
(***************************************************************************)
MaxRows == 2
MaxCalls == 1
MaxRepeatedCalls == 2
MaxSheets == 2
MaxProcessCalls == 2

(***************************************************************************)
(* FinancialCategory and ScenarioType.                                     *)
(***************************************************************************)
REVENUE == "receitas"
VARIABLE_COSTS == "custos_variaveis"
PERSONNEL_EXPENSES == "despesas_pessoal"
COMMERCIAL_EXPENSES == "despesas_comerciais"
ADMIN_EXPENSES == "despesas_administrativas"
INVESTMENTS == "investimentos"
CONTRIBUTION_MARGIN == "margem_contribuicao"
CASH_FLOW == "fluxo_de_caixa"
FINAL_BALANCE == "saldo_final"

REALISTIC == "realista"
PESSIMISTIC == "pessimista"
OPTIMISTIC == "otimista"
AGGRESSIVE == "agressivo"

ScenarioTypes == {REALISTIC, PESSIMISTIC, OPTIMISTIC, AGGRESSIVE}

REVENUE_CATEGORIES == <<REVENUE>>
VARIABLE_COST_CATEGORIES == <<VARIABLE_COSTS>>
FIXED_EXPENSE_CATEGORIES == <<PERSONNEL_EXPENSES, COMMERCIAL_EXPENSES, ADMIN_EXPENSES>>
INVESTMENT_CATEGORIES == <<INVESTMENTS>>
CALCULATED_CATEGORIES == <<CONTRIBUTION_MARGIN, CASH_FLOW, FINAL_BALANCE>>

\* Insertion order of a dataset dict: base categories in enumeration order,
\* the derived ones after them (they are inserted last by the recalculation).
CategoryOrder ==
    REVENUE_CATEGORIES \o VARIABLE_COST_CATEGORIES \o FIXED_EXPENSE_CATEGORIES
        \o INVESTMENT_CATEGORIES \o CALCULATED_CATEGORIES

(***************************************************************************)
(* Helpers.                                                                *)
(***************************************************************************)
Range(s) == {s[i] : i \in DOMAIN s}

RECURSIVE SumSeq(_)
SumSeq(s) == IF s = <<>> THEN 0 ELSE Head(s) + SumSeq(Tail(s))

\* position of x in the sequence s (x occurs in s)
IndexOf(s, x) == CHOOSE i \in DOMAIN s : s[i] = x

\* amount * multiplier, the multiplier in thousandths
Scale(v, f) == (v * f) \div 1000

EmptyDataset == [k \in {} |-> 0]

\* pd.DataFrame()
EmptyDataFrame == [nrows |-> 0, cols |-> <<>>, cell |-> [c \in {} |-> <<>>],
                   txt |-> <<>>, text |-> [c \in {} |-> <<>>],
                   kind |-> "DataFrame"]

\* df.select_dtypes(include=['number']).columns
NumericCols(df) == df.cols

\* df.empty: no rows or no columns at all
IsEmptyFrame(df) == df.nrows = 0 \/ (df.cols = <<>> /\ df.txt = <<>>)

\* df[col].sum()
ColSum(df, c) == SumSeq([r \in 1..df.nrows |-> df.cell[c][r]])

\* df[numeric_cols].sum().sum()
RECURSIVE SumOver(_, _)
SumOver(df, cs) ==
    IF cs = <<>> THEN 0 ELSE ColSum(df, Head(cs)) + SumOver(df, Tail(cs))

GrandSum(df) == SumOver(df, df.cols)

\* the present categories of a list, in list order
PresentIn(data, categories) ==
    SelectSeq(categories, LAMBDA k : k \in DOMAIN data)

\* the categories of a dataset in dict (insertion) order
Keys(data) == PresentIn(data, CategoryOrder)

\* df[numeric_cols] = df[numeric_cols] * factor
ScaleTable(df, f) ==
    [df EXCEPT !.cell = [c \in DOMAIN df.cell |->
                            [r \in 1..df.nrows |-> Scale(df.cell[c][r], f)]]]

\* the same statement applied to every present category of a list
ScaleCategories(data, categories, f) ==
    [k \in DOMAIN data |->
        IF k \in Range(categories) THEN ScaleTable(data[k], f) ELSE data[k]]

\* parameters.get(key, default) if parameters else default
\* (None and the empty dict are both falsy: the empty function stands for both)
ParamGet(parameters, key, default) ==
    IF DOMAIN parameters = {} THEN default
    ELSE IF key \in DOMAIN parameters THEN parameters[key] ELSE default

\* list(a_set_of_column_labels): a Python set of str iterates in the order of
\* the process's string hashes, which the hash seed fixes for the whole
\* process; hashOrder is that order.
SetToList(S) == SelectSeq(hashOrder, LAMBDA c : c \in S)

(***************************************************************************)
(* scenario_generator.py: the shared recalculation.                        *)
(***************************************************************************)

\* _normalize_financial_data: lists of records and single records become
\* DataFrames, DataFrames are kept, any other value is dropped.
NormalizeFinancialData(data) ==
    LET known == {k \in DOMAIN data : data[k].kind \in {"list", "dict", "DataFrame"}}
    IN  [k \in known |-> [data[k] EXCEPT !.kind = "DataFrame"]]

\* _sum_category_values: the numeric columns of the listed categories are
\* collected in a set, the sums are indexed by list(that set).
SumColumns(data, categories) ==
    SetToList(UNION {Range(NumericCols(data[k])) : k \in Range(PresentIn(data, categories))})

SumCategoryValues(data, categories) ==
    LET present == PresentIn(data, categories)
        numeric_columns == SumColumns(data, categories)
        Total(c) == SumSeq([j \in 1..Len(present) |->
                        IF c \in DOMAIN data[present[j]].cell
                        THEN ColSum(data[present[j]], c) ELSE 0])
    IN  [i \in 1..Len(numeric_columns) |-> Total(numeric_columns[i])]

\* numpy: a - b on one-dimensional arrays is defined when the lengths agree
\* or one of them is 1 (broadcasting); otherwise it raises ValueError.
Broadcastable(a, b) == Len(a) = Len(b) \/ Len(a) = 1 \/ Len(b) = 1

BSub(a, b) ==
    IF Len(a) = Len(b) THEN [i \in 1..Len(a) |-> a[i] - b[i]]
    ELSE IF Len(a) = 1 THEN [i \in 1..Len(b) |-> a[1] - b[i]]
    ELSE [i \in 1..Len(a) |-> a[i] - b[1]]

\* np.cumsum
CumSum(s) == [i \in 1..Len(s) |-> SumSeq(SubSeq(s, 1, i))]

\* _find_common_numeric_columns: list(set.intersection(...)) over every
\* non-empty table of the scenario, derived ones included when present.
FindCommonNumericColumns(scenario_data) ==
    LET sets == {Range(NumericCols(scenario_data[k])) :
                    k \in {x \in DOMAIN scenario_data : ~IsEmptyFrame(scenario_data[x])}}
    IN  IF sets = {} THEN <<>>
        ELSE SetToList({c \in UNION sets : \A S \in sets : c \in S})

\* a faulty variant that creates a one-row table when there is no template
CreateOrGetDataframe_RowWithoutTemplate(scenario_data, category) ==
    IF category \in DOMAIN scenario_data THEN scenario_data[category]
    ELSE LET nonEmpty == SelectSeq(Keys(scenario_data),
                                   LAMBDA k : ~IsEmptyFrame(scenario_data[k]))
             template_df == IF nonEmpty = <<>> THEN [EmptyDataFrame EXCEPT !.nrows = 1]
                            ELSE scenario_data[nonEmpty[1]]
         IN  [nrows |-> template_df.nrows, cols |-> <<>>,
              cell |-> [c \in {} |-> <<>>],
              txt |-> template_df.txt, text |-> template_df.text,
              kind |-> "DataFrame"]

\* _create_or_get_dataframe: the existing table, or a new one with the index
\* and the non-numeric columns of the first non-empty table of the dict.
CreateOrGetDataframe(scenario_data, category) ==
    IF category \in DOMAIN scenario_data THEN scenario_data[category]
    ELSE LET nonEmpty == SelectSeq(Keys(scenario_data),
                                   LAMBDA k : ~IsEmptyFrame(scenario_data[k]))
         IN  IF nonEmpty = <<>> THEN EmptyDataFrame
             ELSE LET template_df == scenario_data[nonEmpty[1]]
                  IN  [nrows |-> template_df.nrows, cols |-> <<>>,
                       cell |-> [c \in {} |-> <<>>],
                       txt |-> template_df.txt, text |-> template_df.text,
                       kind |-> "DataFrame"]

\* values[:len(columns)] or np.pad(values, (0, len(columns) - len(values)))
FitValues(values, n) ==
    [i \in 1..n |-> IF i <= Len(values) THEN values[i] ELSE 0]

\* df[col] = per_row[i] for the i-th col of columns, in order: the scalar
\* fills every row of the column
AssignColumns(df, columns, per_row) ==
    [df EXCEPT
        !.cols = df.cols \o SelectSeq(columns, LAMBDA c : c \notin Range(df.cols)),
        !.cell = [c \in DOMAIN df.cell \cup Range(columns) |->
                    IF c \in Range(columns)
                    THEN [r \in 1..df.nrows |-> per_row[IndexOf(columns, c)]]
                    ELSE df.cell[c]]]

\* _update_dataframe_with_values: column i of columns receives values[i],
\* divided evenly over the rows when the table has more than one row.
UpdateDataframeWithValues(df, columns, values) ==
    IF columns = <<>> \/ Len(values) = 0 THEN df
    ELSE LET fitted == FitValues(values, Len(columns))
             per_row == [i \in 1..Len(columns) |->
                            IF df.nrows > 1 THEN fitted[i] \div df.nrows ELSE fitted[i]]
         IN  AssignColumns(df, columns, per_row)

\* the two subtractions of _recalculate_derived_values raise ValueError when
\* the operands cannot be broadcast
RecalculateRaises(scenario_data) ==
    LET revenue_sum == SumCategoryValues(scenario_data, REVENUE_CATEGORIES)
        variable_costs_sum == SumCategoryValues(scenario_data, VARIABLE_COST_CATEGORIES)
        fixed_expenses_sum == SumCategoryValues(scenario_data, FIXED_EXPENSE_CATEGORIES)
    IN  \/ ~Broadcastable(revenue_sum, variable_costs_sum)
        \/ ~Broadcastable(BSub(revenue_sum, variable_costs_sum), fixed_expenses_sum)

\* _recalculate_derived_values (when it does not raise)
RecalculateDerivedValues(scenario_data) ==
    LET common_columns == FindCommonNumericColumns(scenario_data)
        margin_df == CreateOrGetDataframe(scenario_data, CONTRIBUTION_MARGIN)
        cashflow_df == CreateOrGetDataframe(scenario_data, CASH_FLOW)
        balance_df == CreateOrGetDataframe(scenario_data, FINAL_BALANCE)
        revenue_sum == SumCategoryValues(scenario_data, REVENUE_CATEGORIES)
        variable_costs_sum == SumCategoryValues(scenario_data, VARIABLE_COST_CATEGORIES)
        fixed_expenses_sum == SumCategoryValues(scenario_data, FIXED_EXPENSE_CATEGORIES)
        contribution_margin == BSub(revenue_sum, variable_costs_sum)
        cashflow == BSub(contribution_margin, fixed_expenses_sum)
        balance == CumSum(cashflow)
    IN  [k \in DOMAIN scenario_data \cup Range(CALCULATED_CATEGORIES) |->
            IF k = CONTRIBUTION_MARGIN
            THEN UpdateDataframeWithValues(margin_df, common_columns, contribution_margin)
            ELSE IF k = CASH_FLOW
            THEN UpdateDataframeWithValues(cashflow_df, common_columns, cashflow)
            ELSE IF k = FINAL_BALANCE
            THEN UpdateDataframeWithValues(balance_df, common_columns, balance)
            ELSE scenario_data[k]]

(***************************************************************************)
(* scenario_generator.py: the four scenarios.                              *)
(* Each returns [raised, data]: raised when the recalculation raises.      *)
(***************************************************************************)
Recalculated(scenario_data) ==
    IF RecalculateRaises(scenario_data)
    THEN [raised |-> TRUE, data |-> EmptyDataset]
    ELSE [raised |-> FALSE, data |-> RecalculateDerivedValues(scenario_data)]

\* a faulty variant of _generate_realistic_scenario that scales the revenue
GenerateRealisticScenario_ScalesRevenue(fd, parameters) ==
    Recalculated(ScaleCategories(fd, REVENUE_CATEGORIES, 850))

\* _generate_realistic_scenario: deepcopy, then recalculation
GenerateRealisticScenario(fd, parameters) == Recalculated(fd)

\* the body shared by _generate_pessimistic_scenario and
\* _generate_optimistic_scenario: three multiplications, then recalculation
AdjustedScenario(fd, revenue_adjustment, cost_adjustment, expense_adjustment) ==
    LET s1 == ScaleCategories(fd, REVENUE_CATEGORIES, 1000 + revenue_adjustment)
        s2 == ScaleCategories(s1, VARIABLE_COST_CATEGORIES, 1000 + cost_adjustment)
        s3 == ScaleCategories(s2, FIXED_EXPENSE_CATEGORIES, 1000 + expense_adjustment)
    IN  Recalculated(s3)

\* a faulty variant of _generate_pessimistic_scenario whose default cost
\* adjustment lowers the costs
GeneratePessimisticScenario_LowersCosts(fd, parameters) ==
    AdjustedScenario(fd,
        ParamGet(parameters, "revenue_adjustment", -150),
        ParamGet(parameters, "cost_adjustment", -100),
        ParamGet(parameters, "expense_adjustment", 100))

\* _generate_pessimistic_scenario
GeneratePessimisticScenario(fd, parameters) ==
    AdjustedScenario(fd,
        ParamGet(parameters, "revenue_adjustment", -150),
        ParamGet(parameters, "cost_adjustment", 100),
        ParamGet(parameters, "expense_adjustment", 100))

\* _generate_optimistic_scenario
GenerateOptimisticScenario(fd, parameters) ==
    AdjustedScenario(fd,
        ParamGet(parameters, "revenue_adjustment", 200),
        ParamGet(parameters, "cost_adjustment", -50),
        ParamGet(parameters, "expense_adjustment", -50))

\* a faulty variant of the revenue loop that counts the columns from 1
GrowRevenueTable_CountsFromOne(df, initial_growth, growth_rate) ==
    [df EXCEPT !.cell = [c \in DOMAIN df.cell |->
        [r \in 1..df.nrows |->
            IF c \in Range(NumericCols(df))
            THEN Scale(df.cell[c][r],
                       1000 + initial_growth + IndexOf(NumericCols(df), c) * growth_rate)
            ELSE df.cell[c][r]]]]

\* for i, col in enumerate(numeric_cols): df[col] = df[col] * growth_factor
\* (i is 0-based in the code, positions are 1-based here)
GrowRevenueTable(df, initial_growth, growth_rate) ==
    [df EXCEPT !.cell = [c \in DOMAIN df.cell |->
        [r \in 1..df.nrows |->
            IF c \in Range(NumericCols(df))
            THEN Scale(df.cell[c][r],
                       1000 + initial_growth + (IndexOf(NumericCols(df), c) - 1) * growth_rate)
            ELSE df.cell[c][r]]]]

GrowRevenue(data, initial_growth, growth_rate) ==
    [k \in DOMAIN data |->
        IF k \in Range(REVENUE_CATEGORIES)
        THEN GrowRevenueTable(data[k], initial_growth, growth_rate)
        ELSE data[k]]

\* revenue_growth = new_revenue / original_revenue, non-finite entries set
\* to 1.0; in thousandths
RevenueGrowth(original_revenue, new_revenue) ==
    [i \in 1..Len(original_revenue) |->
        IF original_revenue[i] = 0 THEN 1000
        ELSE (new_revenue[i] * 1000) \div original_revenue[i]]

\* for i, col in enumerate(numeric_cols): if i < len(revenue_growth):
\*     df[col] = df_orig[col] * (1 + (revenue_growth[i] - 1) * share)
\* share in tenths (8 for 0.8, 5 for 0.5)
FollowGrowthTable(df, df_orig, revenue_growth, share) ==
    [df EXCEPT !.cell = [c \in DOMAIN df.cell |->
        [r \in 1..df.nrows |->
            IF c \in Range(NumericCols(df)) /\ IndexOf(NumericCols(df), c) <= Len(revenue_growth)
            THEN Scale(df_orig.cell[c][r],
                       1000 + ((revenue_growth[IndexOf(NumericCols(df), c)] - 1000) * share) \div 10)
            ELSE df.cell[c][r]]]]

FollowGrowth(data, original, categories, revenue_growth, share) ==
    [k \in DOMAIN data |->
        IF k \in Range(categories) /\ k \in DOMAIN original
        THEN FollowGrowthTable(data[k], original[k], revenue_growth, share)
        ELSE data[k]]

\* a faulty variant of _generate_aggressive_scenario that leaves the
\* investments as they are unless the caller adjusts them
GenerateAggressiveScenario_KeepsInvestments(fd, parameters) ==
    LET initial_growth == ParamGet(parameters, "initial_growth", 300)
        growth_rate == ParamGet(parameters, "growth_rate", 50)
        investment_adjustment == ParamGet(parameters, "investment_adjustment", 0)
        s1 == GrowRevenue(fd, initial_growth, growth_rate)
        s2 == ScaleCategories(s1, INVESTMENT_CATEGORIES, 1000 + investment_adjustment)
        original_revenue == SumCategoryValues(fd, REVENUE_CATEGORIES)
        new_revenue == SumCategoryValues(s2, REVENUE_CATEGORIES)
        revenue_growth == RevenueGrowth(original_revenue, new_revenue)
        s3 == IF Len(original_revenue) > 0 /\ Len(new_revenue) > 0
              THEN FollowGrowth(
                       FollowGrowth(s2, fd, VARIABLE_COST_CATEGORIES, revenue_growth, 8),
                       fd, FIXED_EXPENSE_CATEGORIES, revenue_growth, 5)
              ELSE s2
    IN  Recalculated(s3)

\* _generate_aggressive_scenario
GenerateAggressiveScenario(fd, parameters) ==
    LET initial_growth == ParamGet(parameters, "initial_growth", 300)
        growth_rate == ParamGet(parameters, "growth_rate", 50)
        investment_adjustment == ParamGet(parameters, "investment_adjustment", 250)
        s1 == GrowRevenue(fd, initial_growth, growth_rate)
        s2 == ScaleCategories(s1, INVESTMENT_CATEGORIES, 1000 + investment_adjustment)
        original_revenue == SumCategoryValues(fd, REVENUE_CATEGORIES)
        new_revenue == SumCategoryValues(s2, REVENUE_CATEGORIES)
        revenue_growth == RevenueGrowth(original_revenue, new_revenue)
        s3 == IF Len(original_revenue) > 0 /\ Len(new_revenue) > 0
              THEN FollowGrowth(
                       FollowGrowth(s2, fd, VARIABLE_COST_CATEGORIES, revenue_growth, 8),
                       fd, FIXED_EXPENSE_CATEGORIES, revenue_growth, 5)
              ELSE s2
    IN  Recalculated(s3)

\* the dispatch of generate_scenario
GenerateByType(fd, scenario_type, parameters) ==
    IF scenario_type = REALISTIC THEN GenerateRealisticScenario(fd, parameters)
    ELSE IF scenario_type = PESSIMISTIC THEN GeneratePessimisticScenario(fd, parameters)
    ELSE IF scenario_type = OPTIMISTIC THEN GenerateOptimisticScenario(fd, parameters)
    ELSE GenerateAggressiveScenario(fd, parameters)

(***************************************************************************)
(* scenario_generator.py: _calculate_scenario_metrics.                     *)
(* A quotient is kept as the pair [num, den]; 0 is [num |-> 0, den |-> 1]. *)
(***************************************************************************)
\* the quotient a / b * 100 as the model keeps it; 0 when a or b is 0
PercentageOf(a, b) ==
    IF a = 0 \/ b = 0 THEN [num |-> 0, den |-> 1] ELSE [num |-> a * 100, den |-> b]

RECURSIVE TotalOf(_, _)
TotalOf(data, categories) ==
    IF categories = <<>> THEN 0
    ELSE (IF Head(categories) \in DOMAIN data THEN GrandSum(data[Head(categories)]) ELSE 0)
         + TotalOf(data, Tail(categories))

\* for col in numeric_cols: the last value of the column, summed
RECURSIVE LastValues(_, _)
LastValues(df, cs) ==
    IF cs = <<>> \/ df.nrows = 0 THEN 0
    ELSE df.cell[Head(cs)][df.nrows] + LastValues(df, Tail(cs))

CalculateScenarioMetrics(scenario_data) ==
    LET total_revenue == TotalOf(scenario_data, REVENUE_CATEGORIES)
        total_costs == TotalOf(scenario_data, VARIABLE_COST_CATEGORIES)
        total_expenses == TotalOf(scenario_data, FIXED_EXPENSE_CATEGORIES)
        total_margin == TotalOf(scenario_data, <<CONTRIBUTION_MARGIN>>)
        total_cashflow == TotalOf(scenario_data, <<CASH_FLOW>>)
        total_investment == TotalOf(scenario_data, INVESTMENT_CATEGORIES)
    IN  [total_revenue |-> total_revenue,
         total_costs |-> total_costs,
         total_expenses |-> total_expenses,
         total_margin |-> total_margin,
         total_cashflow |-> total_cashflow,
         final_balance |->
            IF FINAL_BALANCE \in DOMAIN scenario_data
            THEN LastValues(scenario_data[FINAL_BALANCE],
                            NumericCols(scenario_data[FINAL_BALANCE]))
            ELSE 0,
         margin_percentage |->
            IF total_revenue > 0
            THEN PercentageOf(total_margin, total_revenue)
            ELSE [num |-> 0, den |-> 1],
         roi |->
            IF total_investment > 0
            THEN PercentageOf(total_cashflow, total_investment)
            ELSE [num |-> 0, den |-> 1]]

NoMetrics ==
    [total_revenue |-> 0, total_costs |-> 0, total_expenses |-> 0,
     total_margin |-> 0, total_cashflow |-> 0, final_balance |-> 0,
     margin_percentage |-> [num |-> 0, den |-> 1], roi |-> [num |-> 0, den |-> 1]]

(***************************************************************************)
(* The scenarios dict, in insertion order: a sequence of [k, v] items.     *)
(***************************************************************************)
DictKeys(d) == [i \in 1..Len(d) |-> d[i].k]

DictHas(d, key) == \E i \in 1..Len(d) : d[i].k = key

DictGet(d, key) == d[CHOOSE i \in 1..Len(d) : d[i].k = key].v

\* d[key] = value
DictSet(d, key, value) ==
    IF DictHas(d, key)
    THEN [i \in 1..Len(d) |-> IF d[i].k = key THEN [k |-> key, v |-> value] ELSE d[i]]
    ELSE Append(d, [k |-> key, v |-> value])

(***************************************************************************)
(* scenario_service.py: the second ScenarioGenerator.                      *)
(***************************************************************************)
BaseCategoryOrder ==
    REVENUE_CATEGORIES \o VARIABLE_COST_CATEGORIES \o FIXED_EXPENSE_CATEGORIES
        \o INVESTMENT_CATEGORIES

\* _find_common_numeric_columns: the numeric columns of the first present
\* base category, in its column order, that are numeric in every other one
SvcFindCommonNumericColumns(scenario_data) ==
    LET non_derived_categories == PresentIn(scenario_data, BaseCategoryOrder)
    IN  IF non_derived_categories = <<>> THEN <<>>
        ELSE SelectSeq(NumericCols(scenario_data[non_derived_categories[1]]),
                 LAMBDA c : \A k \in Range(non_derived_categories) :
                                c \in Range(NumericCols(scenario_data[k])))

\* _create_or_get_dataframe: the template is the first present base category
SvcCreateOrGetDataframe(scenario_data, category) ==
    IF category \in DOMAIN scenario_data THEN scenario_data[category]
    ELSE LET present == PresentIn(scenario_data, BaseCategoryOrder)
         IN  IF present = <<>> THEN EmptyDataFrame
             ELSE LET template_df == scenario_data[present[1]]
                  IN  [nrows |-> template_df.nrows, cols |-> <<>>,
                       cell |-> [c \in {} |-> <<>>],
                       txt |-> template_df.txt, text |-> template_df.text,
                       kind |-> "DataFrame"]

\* _sum_category_values(scenario_data, categories, columns)
SvcSumCategoryValues(scenario_data, categories, columns) ==
    LET present == PresentIn(scenario_data, categories)
        Total(c) == SumSeq([j \in 1..Len(present) |->
                        IF c \in DOMAIN scenario_data[present[j]].cell
                        THEN ColSum(scenario_data[present[j]], c) ELSE 0])
    IN  [i \in 1..Len(columns) |-> Total(columns[i])]

\* _update_dataframe_with_values: df[col] = values[i], the scalar in every row
SvcUpdateDataframeWithValues(df, columns, values) ==
    IF columns = <<>> THEN df
    ELSE AssignColumns(df, columns, values)

\* _recalculate_derived_values
SvcRecalculateDerivedValues(scenario_data) ==
    LET common_columns == SvcFindCommonNumericColumns(scenario_data)
        margin_df == SvcCreateOrGetDataframe(scenario_data, CONTRIBUTION_MARGIN)
        revenue_sum == SvcSumCategoryValues(scenario_data, REVENUE_CATEGORIES, common_columns)
        variable_costs_sum ==
            SvcSumCategoryValues(scenario_data, VARIABLE_COST_CATEGORIES, common_columns)
        fixed_expenses_sum ==
            SvcSumCategoryValues(scenario_data, FIXED_EXPENSE_CATEGORIES, common_columns)
        contribution_margin == BSub(revenue_sum, variable_costs_sum)
        cashflow_df == SvcCreateOrGetDataframe(scenario_data, CASH_FLOW)
        cashflow == BSub(contribution_margin, fixed_expenses_sum)
        balance_df == SvcCreateOrGetDataframe(scenario_data, FINAL_BALANCE)
        balance == CumSum(cashflow)
    IN  [k \in DOMAIN scenario_data \cup Range(CALCULATED_CATEGORIES) |->
            IF k = CONTRIBUTION_MARGIN
            THEN SvcUpdateDataframeWithValues(margin_df, common_columns, contribution_margin)
            ELSE IF k = CASH_FLOW
            THEN SvcUpdateDataframeWithValues(cashflow_df, common_columns, cashflow)
            ELSE IF k = FINAL_BALANCE
            THEN SvcUpdateDataframeWithValues(balance_df, common_columns, balance)
            ELSE scenario_data[k]]

\* generate_realistic_scenario: a deep copy of every category, recalculated
SvcRealistic(fd) == SvcRecalculateDerivedValues(fd)

\* generate_pessimistic_scenario, from a deep copy of the realistic scenario
SvcPessimistic(realistic) ==
    SvcRecalculateDerivedValues(
        ScaleCategories(
            ScaleCategories(
                ScaleCategories(realistic, REVENUE_CATEGORIES, 850),
                VARIABLE_COST_CATEGORIES, 1100),
            FIXED_EXPENSE_CATEGORIES, 1100))

\* a faulty variant of generate_optimistic_scenario that raises the fixed
\* expenses
SvcOptimistic_RaisesExpenses(realistic) ==
    SvcRecalculateDerivedValues(
        ScaleCategories(
            ScaleCategories(
                ScaleCategories(realistic, REVENUE_CATEGORIES, 1200),
                VARIABLE_COST_CATEGORIES, 950),
            FIXED_EXPENSE_CATEGORIES, 1050))

\* generate_optimistic_scenario
SvcOptimistic(realistic) ==
    SvcRecalculateDerivedValues(
        ScaleCategories(
            ScaleCategories(
                ScaleCategories(realistic, REVENUE_CATEGORIES, 1200),
                VARIABLE_COST_CATEGORIES, 950),
            FIXED_EXPENSE_CATEGORIES, 950))

\* _calculate_category_growth: one factor per numeric column of each listed
\* category, in column order; 1.0 unless the original sum is positive
RECURSIVE SvcGrowthFactors(_, _, _)
SvcGrowthFactors(original_data, modified_data, categories) ==
    IF categories = <<>> THEN <<>>
    ELSE LET k == Head(categories)
             rest == SvcGrowthFactors(original_data, modified_data, Tail(categories))
         IN  IF k \in DOMAIN original_data /\ k \in DOMAIN modified_data
             THEN [i \in 1..Len(NumericCols(original_data[k])) |->
                     LET col == NumericCols(original_data[k])[i]
                         orig_sum == ColSum(original_data[k], col)
                         mod_sum == ColSum(modified_data[k], col)
                     IN  IF orig_sum > 0 THEN (mod_sum * 1000) \div orig_sum ELSE 1000]
                  \o rest
             ELSE rest

SvcCalculateCategoryGrowth(original_data, modified_data, categories) ==
    LET growth_factors == SvcGrowthFactors(original_data, modified_data, categories)
    IN  IF growth_factors = <<>> THEN <<1000>> ELSE growth_factors

\* generate_aggressive_scenario
SvcAggressive(realistic) ==
    LET s1 == GrowRevenue(realistic, 300, 50)
        s2 == ScaleCategories(s1, INVESTMENT_CATEGORIES, 1250)
        revenue_growth == SvcCalculateCategoryGrowth(realistic, s2, REVENUE_CATEGORIES)
        s3 == FollowGrowth(s2, realistic, VARIABLE_COST_CATEGORIES, revenue_growth, 8)
        s4 == FollowGrowth(s3, realistic, FIXED_EXPENSE_CATEGORIES, revenue_growth, 5)
    IN  SvcRecalculateDerivedValues(s4)

SvcByType(realistic, scenario_type) ==
    IF scenario_type = PESSIMISTIC THEN SvcPessimistic(realistic)
    ELSE IF scenario_type = OPTIMISTIC THEN SvcOptimistic(realistic)
    ELSE SvcAggressive(realistic)

(***************************************************************************)
(* The inputs: datasets, parameters, scenario type strings, hash orders.   *)
(***************************************************************************)
Labels == {"Jan", "Fev"}

\* every iteration order a set of the labels can have
HashOrders == {o \in [1..Cardinality(Labels) -> Labels] : Range(o) = Labels}

\* scenario_service.py builds no set: one order stands for all of them there
CanonicalOrder == <<"Jan", "Fev">>

\* a table whose row r holds r * base[c] in numeric column c
MkTable(cols, n, base, txt, kind) ==
    [nrows |-> n, cols |-> cols,
     cell |-> [c \in Range(cols) |-> [r \in 1..n |-> r * base[c]]],
     txt |-> txt, text |-> [t \in Range(txt) |-> [r \in 1..n |-> "item"]],
     kind |-> kind]

RevenueTables ==
    {MkTable(<<"Jan", "Fev">>, n, [Jan |-> 12000, Fev |-> 24000], <<"Descricao">>, "DataFrame")
        : n \in 1..MaxRows}
    \cup {MkTable(<<"Fev", "Jan">>, 1, [Jan |-> 0, Fev |-> 36000], <<>>, "list"),
          MkTable(<<"Jan", "Fev">>, 1, [Jan |-> -12000, Fev |-> 12000], <<>>, "DataFrame")}

VariableCostTables ==
    {MkTable(<<"Jan", "Fev">>, MaxRows, [Jan |-> 12000, Fev |-> 12000], <<"Descricao">>, "DataFrame"),
     MkTable(<<"Fev", "Jan">>, 1, [Jan |-> 12000, Fev |-> 0], <<>>, "dict")}

PersonnelFevOnly == MkTable(<<"Fev">>, 1, [Fev |-> 12000], <<>>, "DataFrame")
CommercialTable == MkTable(<<"Jan", "Fev">>, 1, [Jan |-> 12000, Fev |-> 24000], <<>>, "DataFrame")
AdminTable == MkTable(<<"Jan", "Fev">>, MaxRows, [Jan |-> 12000, Fev |-> 0], <<"Descricao">>, "DataFrame")

InvestmentTables ==
    {MkTable(<<"Jan", "Fev">>, 1, [Jan |-> 12000, Fev |-> -24000], <<"Descricao">>, "DataFrame"),
     MkTable(<<"Jan">>, MaxRows, [Jan |-> 24000], <<>>, "DataFrame")}

\* the revenue and variable-cost tables of the unit tests' fixture, column Jan
FixtureDataset ==
    (REVENUE :> [nrows |-> 3, cols |-> <<"Jan">>,
                 cell |-> [Jan |-> <<100000, 150000, 50000>>],
                 txt |-> <<"Descricao">>,
                 text |-> [Descricao |-> <<"Produto A", "Produto B", "Servico X">>],
                 kind |-> "DataFrame"])
    @@ (VARIABLE_COSTS :> [nrows |-> 3, cols |-> <<"Jan">>,
                 cell |-> [Jan |-> <<40000, 30000, 20000>>],
                 txt |-> <<"Descricao">>,
                 text |-> [Descricao |-> <<"Custo A", "Custo B", "Custo C">>],
                 kind |-> "DataFrame"])

Optional(category, tables) == {EmptyDataset} \cup {category :> t : t \in tables}

FixedExpenseChoices ==
    {EmptyDataset,
     PERSONNEL_EXPENSES :> PersonnelFevOnly,
     (COMMERCIAL_EXPENSES :> CommercialTable) @@ (ADMIN_EXPENSES :> AdminTable)}

Datasets ==
    {r @@ v @@ f @@ i :
        r \in Optional(REVENUE, RevenueTables),
        v \in Optional(VARIABLE_COSTS, VariableCostTables),
        f \in FixedExpenseChoices,
        i \in Optional(INVESTMENTS, InvestmentTables)}
    \cup {FixtureDataset}

NoParams == [k \in {} |-> 0]

ParamChoices ==
    {NoParams,
     [revenue_adjustment |-> -300, cost_adjustment |-> 200],
     [initial_growth |-> 100, growth_rate |-> 20, investment_adjustment |-> 500]}

InvalidTypes == {"conservador"}

Modules == {"scenario_generator", "scenario_service"}

(***************************************************************************)
(* excel_processor.py: ExcelProcessor._identify_sheet_category.            *)
(* A text is the sequence of its characters.                               *)
(***************************************************************************)
\* str.lower(), for the letters that occur in sheets and keywords
UpperToLower ==
    [A |-> "a", B |-> "b", C |-> "c", D |-> "d", E |-> "e", F |-> "f", G |-> "g",
     H |-> "h", I |-> "i", J |-> "j", K |-> "k", L |-> "l", M |-> "m", N |-> "n",
     O |-> "o", P |-> "p", Q |-> "q", R |-> "r", S |-> "s", T |-> "t", U |-> "u",
     V |-> "v", W |-> "w", X |-> "x", Y |-> "y", Z |-> "z"]
    @@ ("Á" :> "á") @@ ("É" :> "é") @@ ("Í" :> "í") @@ ("Ó" :> "ó")
    @@ ("Ã" :> "ã") @@ ("Ç" :> "ç")

LowerChar(ch) == IF ch \in DOMAIN UpperToLower THEN UpperToLower[ch] ELSE ch

Lower(text) == [i \in 1..Len(text) |-> LowerChar(text[i])]

\* keyword in text
Contains(text, keyword) ==
    \E i \in 0..(Len(text) - Len(keyword)) :
        SubSeq(text, i + 1, i + Len(keyword)) = keyword

\* " ".join(texts)
RECURSIVE Join(_)
Join(texts) ==
    IF texts = <<>> THEN <<>>
    ELSE IF Len(texts) = 1 THEN texts[1]
    ELSE texts[1] \o <<" ">> \o Join(Tail(texts))

None == "None"

\* the keys of CATEGORY_KEYWORDS in the order the dict lists them
KeywordCategories ==
    <<REVENUE, VARIABLE_COSTS, PERSONNEL_EXPENSES, COMMERCIAL_EXPENSES,
      ADMIN_EXPENSES, INVESTMENTS>>

CATEGORY_KEYWORDS ==
    (REVENUE :> <<
          <<"r", "e", "c", "e", "i", "t", "a">>,
          <<"f", "a", "t", "u", "r", "a", "m", "e", "n", "t", "o">>,
          <<"v", "e", "n", "d", "a", "s">>,
          <<"e", "n", "t", "r", "a", "d", "a">>
       >>)
    @@ (VARIABLE_COSTS :> <<
          <<"c", "u", "s", "t", "o", " ", "v", "a", "r", "i", "á", "v", "e", "l">>,
          <<"c", "u", "s", "t", "o", " ", "o", "p", "e", "r", "a", "c", "i", "o", "n", "a", "l">>,
          <<"m", "a", "t", "é", "r", "i", "a", " ", "p", "r", "i", "m", "a">>
       >>)
    @@ (PERSONNEL_EXPENSES :> <<
          <<"d", "e", "s", "p", "e", "s", "a", " ", "p", "e", "s", "s", "o", "a", "l">>,
          <<"s", "a", "l", "á", "r", "i", "o">>,
          <<"r", "e", "m", "u", "n", "e", "r", "a", "ç", "ã", "o">>,
          <<"b", "e", "n", "e", "f", "í", "c", "i", "o">>
       >>)
    @@ (COMMERCIAL_EXPENSES :> <<
          <<"d", "e", "s", "p", "e", "s", "a", " ", "c", "o", "m", "e", "r", "c", "i", "a", "l">>,
          <<"m", "a", "r", "k", "e", "t", "i", "n", "g">>,
          <<"v", "e", "n", "d", "a", "s">>,
          <<"c", "o", "m", "i", "s", "s", "ã", "o">>
       >>)
    @@ (ADMIN_EXPENSES :> <<
          <<"d", "e", "s", "p", "e", "s", "a", " ", "a", "d", "m", "i", "n", "i", "s", "t", "r", "a", "t", "i", "v", "a">>,
          <<"e", "s", "c", "r", "i", "t", "ó", "r", "i", "o">>,
          <<"a", "l", "u", "g", "u", "e", "l">>,
          <<"u", "t", "i", "l", "i", "d", "a", "d", "e">>
       >>)
    @@ (INVESTMENTS :> <<
          <<"i", "n", "v", "e", "s", "t", "i", "m", "e", "n", "t", "o">>,
          <<"a", "q", "u", "i", "s", "i", "ç", "ã", "o">>,
          <<"a", "t", "i", "v", "o">>,
          <<"i", "m", "o", "b", "i", "l", "i", "z", "a", "d", "o">>
       >>)

\* a faulty variant that returns the last category with a keyword in the text
FirstCategoryIn_LastHit(text) ==
    LET hits == SelectSeq(KeywordCategories,
                    LAMBDA category :
                        \E k \in 1..Len(CATEGORY_KEYWORDS[category]) :
                            Contains(text, CATEGORY_KEYWORDS[category][k]))
    IN  IF hits = <<>> THEN None ELSE hits[Len(hits)]

\* for category, keywords in CATEGORY_KEYWORDS.items():
\*     if any(keyword in text for keyword in keywords): return category
FirstCategoryIn(text) ==
    LET hits == SelectSeq(KeywordCategories,
                    LAMBDA category :
                        \E k \in 1..Len(CATEGORY_KEYWORDS[category]) :
                            Contains(text, CATEGORY_KEYWORDS[category][k]))
    IN  IF hits = <<>> THEN None ELSE hits[1]

\* for col in df.columns: if df[col].dtype == 'object':
\*     text_content += " ".join(cells); text_content = text_content.lower()
RECURSIVE TextContent(_, _)
TextContent(columns, text_content) ==
    IF columns = <<>> THEN text_content
    ELSE TextContent(Tail(columns),
             IF Head(columns).dtype = "object"
             THEN Lower(text_content \o Join(Head(columns).cells))
             ELSE text_content)

\* " ".join(df.columns.astype(str)).lower()
ColumnsText(columns) == Lower(Join([i \in 1..Len(columns) |-> columns[i].header]))

\* a faulty variant that looks at the content before the sheet name
IdentifySheetCategory_ContentFirst(sheet_name, df) ==
    IF FirstCategoryIn(TextContent(df, <<>>)) # None
    THEN FirstCategoryIn(TextContent(df, <<>>))
    ELSE IF FirstCategoryIn(Lower(sheet_name)) # None
    THEN FirstCategoryIn(Lower(sheet_name))
    ELSE FirstCategoryIn(ColumnsText(df))

\* _identify_sheet_category: the sheet name, then the text content, then the
\* column names
IdentifySheetCategory(sheet_name, df) ==
    IF FirstCategoryIn(Lower(sheet_name)) # None
    THEN FirstCategoryIn(Lower(sheet_name))
    ELSE IF FirstCategoryIn(TextContent(df, <<>>)) # None
    THEN FirstCategoryIn(TextContent(df, <<>>))
    ELSE FirstCategoryIn(ColumnsText(df))

(***************************************************************************)
(* The sheets of the workbooks: name and columns (header, dtype, cells as  *)
(* str(cell)).                                                             *)
(***************************************************************************)
\* a sheet named for revenue whose items are marketing expenses, with an investment column
SheetVendas ==
    [name |-> <<"V", "e", "n", "d", "a", "s", " ", "2", "0", "2", "3">>,
     df |-> <<[header |-> <<"I", "t", "e", "m">>, dtype |-> "object", cells |-> <<<<"M", "a", "r", "k", "e", "t", "i", "n", "g">>>>],
             [header |-> <<"I", "n", "v", "e", "s", "t", "i", "m", "e", "n", "t", "o">>, dtype |-> "float64", cells |-> <<<<"1", "0", ".", "0">>>>]>>]

\* no keyword in the name, salaries in upper case in the content, a rent column
SheetPlan1 ==
    [name |-> <<"P", "l", "a", "n", "1">>,
     df |-> <<[header |-> <<"I", "t", "e", "m">>, dtype |-> "object", cells |-> <<<<"S", "A", "L", "Á", "R", "I", "O">>>>],
             [header |-> <<"A", "l", "u", "g", "u", "e", "l">>, dtype |-> "float64", cells |-> <<<<"1", "0", ".", "0">>>>]>>]

\* no keyword in the name or the content, an investment column
SheetPlan2 ==
    [name |-> <<"P", "l", "a", "n", "2">>,
     df |-> <<[header |-> <<"I", "t", "e", "m">>, dtype |-> "object", cells |-> <<<<"x">>>>],
             [header |-> <<"I", "n", "v", "e", "s", "t", "i", "m", "e", "n", "t", "o">>, dtype |-> "float64", cells |-> <<<<"1", "0", ".", "0">>>>]>>]

\* an upper-case name, numeric columns only
SheetMarketing ==
    [name |-> <<"M", "A", "R", "K", "E", "T", "I", "N", "G">>,
     df |-> <<[header |-> <<"J", "a", "n">>, dtype |-> "float64", cells |-> <<<<"1", "0", ".", "0">>>>]>>]

\* no keyword anywhere
SheetResumo ==
    [name |-> <<"R", "e", "s", "u", "m", "o">>,
     df |-> <<[header |-> <<"I", "t", "e", "m">>, dtype |-> "object", cells |-> <<<<"t", "o", "t", "a", "l">>>>],
             [header |-> <<"J", "a", "n">>, dtype |-> "float64", cells |-> <<<<"1", "0", ".", "0">>>>]>>]

\* a keyword of two words spread over two cells of one text column
SheetPlan3 ==
    [name |-> <<"P", "l", "a", "n", "3">>,
     df |-> <<[header |-> <<"I", "t", "e", "m">>, dtype |-> "object", cells |-> <<<<"C", "u", "s", "t", "o">>, <<"V", "a", "r", "i", "á", "v", "e", "l">>>>],
             [header |-> <<"J", "a", "n">>, dtype |-> "float64", cells |-> <<<<"1", "0", ".", "0">>, <<"2", "0", ".", "0">>>>]>>]

\* a cost sheet by its name whose content mentions revenue
SheetCusto ==
    [name |-> <<"C", "u", "s", "t", "o", " ", "O", "p", "e", "r", "a", "c", "i", "o", "n", "a", "l">>,
     df |-> <<[header |-> <<"I", "t", "e", "m">>, dtype |-> "object", cells |-> <<<<"r", "e", "c", "e", "i", "t", "a">>>>],
             [header |-> <<"J", "a", "n">>, dtype |-> "float64", cells |-> <<<<"1", "0", ".", "0">>>>]>>]

\* an investment sheet by its name whose content mentions invoicing and whose header mentions salaries
SheetAtivos ==
    [name |-> <<"A", "t", "i", "v", "o", "s">>,
     df |-> <<[header |-> <<"S", "a", "l", "á", "r", "i", "o">>, dtype |-> "object", cells |-> <<<<"F", "a", "t", "u", "r", "a", "m", "e", "n", "t", "o">>>>]>>]

\* a name with a commercial keyword before a revenue keyword, numeric columns only
SheetMarketingReceita ==
    [name |-> <<"M", "a", "r", "k", "e", "t", "i", "n", "g", " ", "e", " ", "R", "e", "c", "e", "i", "t", "a">>,
     df |-> <<[header |-> <<"J", "a", "n">>, dtype |-> "float64", cells |-> <<<<"1", "0", ".", "0">>>>]>>]

Sheets ==
    {SheetVendas, SheetPlan1, SheetPlan2, SheetMarketing,
     SheetResumo, SheetPlan3, SheetCusto, SheetAtivos, SheetMarketingReceita}

\* the workbooks: up to MaxSheets sheets, in any order
Workbooks == UNION {[1..n -> Sheets] : n \in 1..MaxSheets}

(***************************************************************************)
(* excel_processor.py: ExcelProcessor.process_excel_data and the steps it  *)
(* calls.  A DataFrame is the sequence of its columns; a cell is the text  *)
(* str(cell).  The financial_data of a processor is a function from the    *)
(* category ids it holds to their tables.                                  *)
(***************************************************************************)
NaN == <<"n", "a", "n">>
NaT == <<"N", "a", "T">>

Digits == {"0", "1", "2", "3", "4", "5", "6", "7", "8", "9"}

\* df.select_dtypes(include=['number'])
NumericDtypes == {"int64", "float64"}

NumericColumns(df) == {j \in 1..Len(df) : df[j].dtype \in NumericDtypes}

\* df.empty: no column or no row
DfEmpty(df) == df = <<>> \/ df[1].cells = <<>>

\* processed_df.dropna(how='all'): the rows with a value in some column
DropNa(df) ==
    IF df = <<>> THEN df
    ELSE LET kept == SelectSeq([r \in 1..Len(df[1].cells) |-> r],
                               LAMBDA r : \E j \in 1..Len(df) : df[j].cells[r] # NaN)
         IN  [j \in 1..Len(df) |->
                 [df[j] EXCEPT !.cells = [i \in 1..Len(kept) |-> df[j].cells[kept[i]]]]]

\* 'data' in str(col).lower() or 'período' in ... or 'mes' in ... or 'mês' in ...
IsDateColumn(header) ==
    \/ Contains(Lower(header), <<"d", "a", "t", "a">>)
    \/ Contains(Lower(header), <<"p", "e", "r", "í", "o", "d", "o">>)
    \/ Contains(Lower(header), <<"m", "e", "s">>)
    \/ Contains(Lower(header), <<"m", "ê", "s">>)

\* the texts of the sheets that the date parser reads as a date: yyyy-mm-dd
ParsesAsDate(cell) ==
    /\ Len(cell) = 10
    /\ cell[5] = "-" /\ cell[8] = "-"
    /\ \A i \in {1, 2, 3, 4, 6, 7, 9, 10} : cell[i] \in Digits

\* pd.to_datetime(column, errors='coerce'): a number is a count of
\* nanoseconds since 1970, a text is parsed, and what cannot be parsed, or is
\* missing, becomes NaT; the column is a datetime column afterwards
ToDatetimeCell(dtype, cell) ==
    IF cell = NaN THEN NaT
    ELSE IF dtype \in NumericDtypes
    THEN <<"1", "9", "7", "0", "-", "0", "1", "-", "0", "1", " ", "+", " ">> \o cell \o <<" ", "n", "s">>
    ELSE IF ParsesAsDate(cell)
    THEN cell \o <<" ", "0", "0", ":", "0", "0", ":", "0", "0">>
    ELSE NaT

ToDatetime(column) ==
    [header |-> column.header,
     dtype |-> "datetime64[ns]",
     cells |-> [r \in 1..Len(column.cells) |-> ToDatetimeCell(column.dtype, column.cells[r])]]

\* column.astype(float): str(10) is "10", str(10.0) is "10.0"
AsFloat(column) ==
    [header |-> column.header,
     dtype |-> "float64",
     cells |-> [r \in 1..Len(column.cells) |->
                   IF column.dtype = "int64" /\ column.cells[r] # NaN
                   THEN column.cells[r] \o <<".", "0">>
                   ELSE column.cells[r]]]

\* the loops of _process_dataframe_by_category over the columns of the
\* table without its empty rows
StandardizeColumn(column) ==
    IF IsDateColumn(column.header) THEN ToDatetime(column)
    ELSE IF column.dtype \in NumericDtypes THEN AsFloat(column)
    ELSE column

StandardizeColumns(df) == [j \in 1..Len(df) |-> StandardizeColumn(df[j])]

\* _process_dataframe_by_category
ProcessDataframeByCategory(df, category) == StandardizeColumns(DropNa(df))

\* ExcelProcessor.__init__: total_sheets and total_categories are not set
\* yet (-1)
NewProcessor ==
    [financial_data |-> EmptyDataset,
     keys |-> <<>>,
     metadata |-> [sheet_names |-> <<>>, categories_found |-> {},
                   total_sheets |-> -1, total_categories |-> -1]]

\* a call that raised ExcelValidationError
Raised(self, message) ==
    [processor |-> self,
     result |-> [status |-> "ExcelValidationError", message |-> message,
                 categories |-> {}, data |-> EmptyDataset,
                 metadata |-> self.metadata]]

\* the response of a successful call
Succeeded(self) ==
    [processor |-> self,
     result |-> [status |-> "success", message |-> "success",
                 categories |-> self.metadata.categories_found,
                 data |-> self.financial_data,
                 metadata |-> self.metadata]]

NoResult ==
    [status |-> "none", message |-> "none", categories |-> {},
     data |-> EmptyDataset, metadata |-> NewProcessor.metadata]

\* _validate_excel_structure raises: no sheet, or no sheet with a row and a column
StructureInvalid(excel_data) ==
    \/ excel_data = <<>>
    \/ \A i \in 1..Len(excel_data) : DfEmpty(excel_data[i].df)

\* self.financial_data[category.value] = processed_df; categories_found.add(category)
StoreCategory(st, category, processed_df) ==
    [financial_data |->
        (category :> processed_df)
            @@ [k \in DOMAIN st.financial_data \ {category} |-> st.financial_data[k]],
     keys |-> IF category \in DOMAIN st.financial_data THEN st.keys
              ELSE Append(st.keys, category),
     categories_found |-> st.categories_found \cup {category}]

\* the body of the loop of _extract_financial_data for a sheet with data
ExtractSheet(st, sheet, category) ==
    IF category = None THEN st
    ELSE StoreCategory(st, category, ProcessDataframeByCategory(sheet.df, category))

\* the loop of _extract_financial_data
RECURSIVE ExtractSheets(_, _)
ExtractSheets(excel_data, st) ==
    IF excel_data = <<>> THEN st
    ELSE ExtractSheets(Tail(excel_data),
             IF DfEmpty(Head(excel_data).df) THEN st
             ELSE ExtractSheet(st, Head(excel_data),
                      IdentifySheetCategory(Head(excel_data).name, Head(excel_data).df)))

\* the end of _extract_financial_data: the metadata of the categories found
WithCategoriesFound(self, st) ==
    [financial_data |-> st.financial_data,
     keys |-> st.keys,
     metadata |-> [self.metadata EXCEPT !.categories_found = st.categories_found,
                                        !.total_categories = Cardinality(st.categories_found)]]

\* _extract_financial_data: the tables are stored into self.financial_data
\* as it is, categories_found starts as an empty set
ExtractFinancialData(self, excel_data) ==
    WithCategoriesFound(self,
        ExtractSheets(excel_data,
            [financial_data |-> self.financial_data, keys |-> self.keys,
             categories_found |-> {}]))

\* _validate_financial_data: what it raises, or "valid"
ValidateFinancialData(tables) ==
    IF DOMAIN tables = {} THEN "no_categories"
    ELSE IF \E k \in DOMAIN tables : NumericColumns(tables[k]) = {}
    THEN "no_numeric_columns"
    ELSE "valid"

\* process_excel_data after _extract_financial_data
Validated(self) ==
    IF ValidateFinancialData(self.financial_data) = "valid"
    THEN Succeeded(self)
    ELSE Raised(self, ValidateFinancialData(self.financial_data))

\* process_excel_data after the metadata of the sheets are set
Structured(self, excel_data) ==
    IF StructureInvalid(excel_data) THEN Raised(self, "no_valid_data")
    ELSE Validated(ExtractFinancialData(self, excel_data))

\* self.metadata["sheet_names"] = ...; self.metadata["total_sheets"] = ...
WithSheetNames(self, excel_data) ==
    [self EXCEPT !.metadata.sheet_names = [i \in 1..Len(excel_data) |-> excel_data[i].name],
                 !.metadata.total_sheets = Len(excel_data)]

\* process_excel_data(content): content is the sheets read from the bytes,
\* or bytes that pd.read_excel cannot read
ProcessExcelData(self, content) ==
    IF ~content.readable THEN Raised(self, "read_error")
    ELSE Structured(WithSheetNames(self, content.sheets), content.sheets)

(***************************************************************************)
(* The sheets and the contents given to process_excel_data.                *)
(***************************************************************************)
\* a sheet without cells
SheetVazia ==
    [name |-> <<"P", "l", "a", "n", "4">>,
     df |-> <<>>]

\* a rent sheet by its name, without a numeric column
SheetAluguel ==
    [name |-> <<"A", "l", "u", "g", "u", "e", "l">>,
     df |-> <<[header |-> <<"I", "t", "e", "m">>, dtype |-> "object", cells |-> <<<<"s", "a", "l", "a">>>>],
             [header |-> <<"N", "o", "t", "a">>, dtype |-> "object", cells |-> <<<<"p", "a", "g", "o">>>>]>>]

\* a revenue sheet with a period column of texts that are no dates and an empty row
SheetReceitaMensal ==
    [name |-> <<"R", "e", "c", "e", "i", "t", "a", " ", "m", "e", "n", "s", "a", "l">>,
     df |-> <<[header |-> <<"M", "ê", "s">>, dtype |-> "object", cells |-> <<<<"p", "r", "i", "m", "e", "i", "r", "o">>, <<"n", "a", "n">>>>],
             [header |-> <<"V", "a", "l", "o", "r">>, dtype |-> "float64", cells |-> <<<<"1", "0", ".", "0">>, <<"n", "a", "n">>>>]>>]

\* a salary sheet with a date column, a month number and an amount
SheetFolha ==
    [name |-> <<"S", "a", "l", "á", "r", "i", "o", "s">>,
     df |-> <<[header |-> <<"D", "a", "t", "a">>, dtype |-> "object", cells |-> <<<<"2", "0", "2", "3", "-", "0", "1", "-", "1", "5">>, <<"2", "0", "2", "3", "-", "0", "2", "-", "1", "5">>>>],
             [header |-> <<"M", "e", "s">>, dtype |-> "int64", cells |-> <<<<"1">>, <<"2">>>>],
             [header |-> <<"V", "a", "l", "o", "r">>, dtype |-> "int64", cells |-> <<<<"1", "0">>, <<"2", "0">>>>]>>]

\* a commission sheet whose only numeric column is the month number
SheetComissao ==
    [name |-> <<"C", "o", "m", "i", "s", "s", "ã", "o">>,
     df |-> <<[header |-> <<"I", "t", "e", "m">>, dtype |-> "object", cells |-> <<<<"l", "o", "j", "a">>>>],
             [header |-> <<"M", "e", "s">>, dtype |-> "int64", cells |-> <<<<"1">>>>]>>]

ProcessorSheets ==
    {SheetVendas, SheetResumo, SheetPlan2, SheetMarketing, SheetVazia, SheetAluguel,
     SheetReceitaMensal, SheetFolha, SheetComissao}

\* sheet_name=None reads a dict by sheet name: the sheets of a workbook have
\* different names
ProcessorWorkbooks ==
    {w \in UNION {[1..n -> ProcessorSheets] : n \in 1..MaxSheets} :
        \A i, j \in DOMAIN w : i # j => w[i].name # w[j].name}

Unreadable == [readable |-> FALSE, sheets |-> <<>>]

Contents == {Unreadable} \cup {[readable |-> TRUE, sheets |-> w] : w \in ProcessorWorkbooks}

(***************************************************************************)
(* utils/excel_processor.py: export_processed_data, and the workbook that  *)
(* pd.read_excel reads from the file it wrote.                             *)
(***************************************************************************)
\* the characters of a category id
CategoryText ==
    (REVENUE :> <<"r", "e", "c", "e", "i", "t", "a", "s">>)
    @@ (VARIABLE_COSTS :> <<"c", "u", "s", "t", "o", "s", "_", "v", "a", "r", "i", "a", "v", "e", "i", "s">>)
    @@ (PERSONNEL_EXPENSES :> <<"d", "e", "s", "p", "e", "s", "a", "s", "_", "p", "e", "s", "s", "o", "a", "l">>)
    @@ (COMMERCIAL_EXPENSES :> <<"d", "e", "s", "p", "e", "s", "a", "s", "_", "c", "o", "m", "e", "r", "c", "i", "a", "i", "s">>)
    @@ (ADMIN_EXPENSES :> <<"d", "e", "s", "p", "e", "s", "a", "s", "_", "a", "d", "m", "i", "n", "i", "s", "t", "r", "a", "t", "i", "v", "a", "s">>)
    @@ (INVESTMENTS :> <<"i", "n", "v", "e", "s", "t", "i", "m", "e", "n", "t", "o", "s">>)

\* a column written by df.to_excel and read by pd.read_excel: whole numbers
\* come back as int64 (str(10) is "10"), a column without a value as
\* float64
AllWhole(cells) ==
    \A r \in 1..Len(cells) :
        Len(cells[r]) > 2 /\ SubSeq(cells[r], Len(cells[r]) - 1, Len(cells[r])) = <<".", "0">>

ReadBackColumn(column) ==
    IF column.dtype = "float64" /\ AllWhole(column.cells)
    THEN [column EXCEPT !.dtype = "int64",
                        !.cells = [r \in 1..Len(column.cells) |->
                                      SubSeq(column.cells[r], 1, Len(column.cells[r]) - 2)]]
    ELSE IF \A r \in 1..Len(column.cells) : column.cells[r] \in {NaN, NaT}
    THEN [column EXCEPT !.dtype = "float64",
                        !.cells = [r \in 1..Len(column.cells) |-> NaN]]
    ELSE column

\* df.to_excel(writer, sheet_name=category[:31], index=False); no category
\* id is longer than 31 characters
WrittenSheet(self, category) ==
    [name |-> CategoryText[category],
     df |-> [j \in 1..Len(self.financial_data[category]) |->
                ReadBackColumn(self.financial_data[category][j])]]

\* the sheets in the writer when the loop over self.financial_data.items()
\* is done
WrittenSheets(self) == [i \in 1..Len(self.keys) |-> WrittenSheet(self, self.keys[i])]

\* export_processed_data(output_path): ValueError without data; else the
\* category sheets are written, then building the metadata sheet reads
\* self.file_path, which no method of the class sets: the AttributeError is
\* caught and raised as RuntimeError, and leaving the 'with' block saves the
\* file with the sheets written so far
ExportProcessedData(self) ==
    IF DOMAIN self.financial_data = {}
    THEN [status |-> "ValueError", file |-> Unreadable]
    ELSE [status |-> "RuntimeError",
          file |-> [readable |-> TRUE, sheets |-> WrittenSheets(self)]]

NoExport == [status |-> "none", file |-> Unreadable, again |-> NoResult]

\* no collections, no request
NoDb == [spreadsheets |-> <<>>, financial_data |-> <<>>]

NoRequests == <<>>

(***************************************************************************)
(* Copies and shared tables.                                               *)
(* A scenario is written into a copy of a dataset.  shares names the       *)
(* categories whose table in the copy is the same object as in the         *)
(* dataset it was copied from: a write to such a table is seen in both.    *)
(***************************************************************************)
\* a faulty variant of the copy that hands out the dataset's own tables
Deepcopy_SameTables(data) == [data |-> data, shares |-> DOMAIN data]

\* copy.deepcopy(data), {category: df.copy(deep=True)}: every table is new
Deepcopy(data) == [data |-> data, shares |-> {}]

\* a faulty variant in which every write of a scenario lands in its source
AfterWrites_IntoSource(source, copy, written) ==
    [k \in DOMAIN source |-> IF k \in DOMAIN written THEN written[k] ELSE source[k]]

\* the dataset source after the scenario built on copy has been written
AfterWrites(source, copy, written) ==
    [k \in DOMAIN source |->
        IF k \in copy.shares /\ k \in DOMAIN written THEN written[k] ELSE source[k]]

\* the caller's dataset, given what the generator holds: normalization keeps
\* a DataFrame as the same object and builds a new one from a list or dict
CallerDataset(caller, held) ==
    [k \in DOMAIN caller |->
        IF caller[k].kind = "DataFrame" /\ k \in DOMAIN held THEN held[k] ELSE caller[k]]

(***************************************************************************)
(* State machine.                                                          *)
(***************************************************************************)
Response(op, status, scenario_type, data, metrics, message) ==
    [op |-> op, status |-> status, scenario_type |-> scenario_type,
     data |-> data, metrics |-> metrics, message |-> message]

NoResponse == Response("none", "none", "", EmptyDataset, NoMetrics, <<>>)

\* __init__ of either class, for a client that holds one of the datasets and
\* makes n calls; scenario_service.py refuses an empty dataset.
\* calls counts the calls the client has still to make.
Start(datasets, n) ==
    /\ module \in Modules
    /\ hashOrder \in IF module = "scenario_generator" THEN HashOrders
                                                        ELSE {CanonicalOrder}
    /\ input \in datasets
    /\ module = "scenario_service" => input # EmptyDataset
    /\ financial_data = IF module = "scenario_service" THEN input ELSE EmptyDataset
    /\ scenarios = <<>>
    /\ scenarios_generated = <<>>
    /\ response = NoResponse
    /\ calls = n
    /\ workbook = <<>>
    /\ sheet_categories = <<>>
    /\ processor = NewProcessor
    /\ result = NoResult
    /\ export = NoExport
    /\ db = NoDb
    /\ requests = NoRequests

Init == Start(Datasets, MaxCalls)

\* scenario_generator.py: generate_scenario(input, scenario_type, parameters)
GenerateScenario(scenario_type, parameters) ==
    /\ module = "scenario_generator"
    /\ calls > 0
    /\ calls' = calls - 1
    /\ LET normalized == NormalizeFinancialData(input)
           copy == Deepcopy(normalized)
           generated == GenerateByType(copy.data, scenario_type, parameters)
       IN  /\ financial_data' =
                  IF scenario_type \in ScenarioTypes
                  THEN AfterWrites(normalized, copy, generated.data)
                  ELSE normalized
           /\ input' = CallerDataset(input, financial_data')
           /\ IF scenario_type \notin ScenarioTypes
               THEN /\ response' = Response("generate_scenario", "ValueError", scenario_type,
                                       EmptyDataset, NoMetrics,
                                       <<"Tipo de cenario desconhecido: ", scenario_type>>)
                    /\ UNCHANGED <<scenarios, scenarios_generated>>
               ELSE IF generated.raised
               THEN /\ response' = Response("generate_scenario", "ValueError", scenario_type,
                                       EmptyDataset, NoMetrics,
                                       <<"operands could not be broadcast together">>)
                    /\ UNCHANGED <<scenarios, scenarios_generated>>
               ELSE /\ scenarios' = DictSet(scenarios, scenario_type, generated.data)
                    /\ scenarios_generated' =
                            IF scenario_type \in Range(scenarios_generated)
                            THEN scenarios_generated
                            ELSE Append(scenarios_generated, scenario_type)
                    /\ response' = Response("generate_scenario", "success", scenario_type,
                                       generated.data,
                                       CalculateScenarioMetrics(generated.data),
                                       <<"Cenario ", scenario_type, " gerado com sucesso">>)
    /\ UNCHANGED <<module, hashOrder>>
    /\ UNCHANGED excel

\* self.scenarios[REALISTIC] = scenario_data, the scenario built on the copy
StoreRealistic(st, copy, scenario_data) ==
    [scenarios |-> DictSet(st.scenarios, REALISTIC, scenario_data),
     financial_data |-> AfterWrites(st.financial_data, copy, scenario_data)]

\* generate_realistic_scenario on the service's scenarios and financial data:
\* every category is copied, the derived values are recalculated in the copy
SvcRealisticCall(st) ==
    StoreRealistic(st, Deepcopy(st.financial_data),
                   SvcRealistic(Deepcopy(st.financial_data).data))

\* the realistic scenario is generated first when it is not stored yet
WithRealistic(st) ==
    IF DictHas(st.scenarios, REALISTIC) THEN st ELSE SvcRealisticCall(st)

\* self.scenarios[scenario_type] = scenario_data, the scenario built on a
\* copy of the stored realistic scenario
StoreScenario(st, realistic, scenario_type, scenario_data) ==
    [scenarios |->
        DictSet(DictSet(st.scenarios, REALISTIC,
                        AfterWrites(realistic, Deepcopy(realistic), scenario_data)),
                scenario_type, scenario_data),
     financial_data |-> st.financial_data]

\* the body of generate_pessimistic/optimistic/aggressive_scenario once the
\* realistic scenario is stored
SvcTypeCallOn(st, scenario_type) ==
    StoreScenario(st, DictGet(st.scenarios, REALISTIC), scenario_type,
        SvcByType(Deepcopy(DictGet(st.scenarios, REALISTIC)).data, scenario_type))

\* generate_pessimistic_scenario, generate_optimistic_scenario,
\* generate_aggressive_scenario: the scenario is written into a deep copy of
\* the stored realistic scenario
SvcTypeCall(st, scenario_type) == SvcTypeCallOn(WithRealistic(st), scenario_type)

\* the service after generate_all_scenarios' four calls
AllGenerated(st) ==
    CHOOSE done \in
        {SvcTypeCall(optimistic, AGGRESSIVE) :
            optimistic \in
                {SvcTypeCall(pessimistic, OPTIMISTIC) :
                    pessimistic \in
                        {SvcTypeCall(realistic, PESSIMISTIC) :
                            realistic \in {SvcRealisticCall(st)}}}} : TRUE

\* scenario_service.py: generate_realistic_scenario()
SvcGenerateRealistic ==
    /\ module = "scenario_service"
    /\ calls > 0
    /\ calls' = calls - 1
    /\ \E st \in {SvcRealisticCall([scenarios |-> scenarios,
                                     financial_data |-> financial_data])} :
           /\ scenarios' = st.scenarios
           /\ financial_data' = st.financial_data
           /\ response' = Response("generate_realistic_scenario", "success", REALISTIC,
                              DictGet(st.scenarios, REALISTIC), NoMetrics, <<>>)
    /\ input' = financial_data'
    /\ UNCHANGED <<module, hashOrder, scenarios_generated>>
    /\ UNCHANGED excel

\* scenario_service.py: generate_pessimistic_scenario(),
\* generate_optimistic_scenario(), generate_aggressive_scenario()
SvcGenerate(scenario_type) ==
    /\ module = "scenario_service"
    /\ calls > 0
    /\ calls' = calls - 1
    /\ \E st \in {SvcTypeCall([scenarios |-> scenarios,
                                financial_data |-> financial_data], scenario_type)} :
           /\ scenarios' = st.scenarios
           /\ financial_data' = st.financial_data
           /\ response' = Response("generate_scenario", "success", scenario_type,
                              DictGet(st.scenarios, scenario_type), NoMetrics, <<>>)
    /\ input' = financial_data'
    /\ UNCHANGED <<module, hashOrder, scenarios_generated>>
    /\ UNCHANGED excel

\* scenario_service.py: generate_all_scenarios()
SvcGenerateAll ==
    /\ module = "scenario_service"
    /\ calls > 0
    /\ calls' = calls - 1
    /\ \E st \in {AllGenerated([scenarios |-> scenarios,
                                 financial_data |-> financial_data])} :
           /\ scenarios' = st.scenarios
           /\ financial_data' = st.financial_data
    /\ input' = financial_data'
    /\ scenarios_generated' = DictKeys(scenarios')
    /\ response' = Response("generate_all_scenarios", "success", "",
                       EmptyDataset, NoMetrics, <<>>)
    /\ UNCHANGED <<module, hashOrder>>
    /\ UNCHANGED excel

\* scenario_service.py: get_scenario_data(scenario_type)
GetScenarioData(scenario_type) ==
    /\ module = "scenario_service"
    /\ calls > 0
    /\ calls' = calls - 1
    /\ response' =
          IF DictHas(scenarios, scenario_type)
          THEN Response("get_scenario_data", "success", scenario_type,
                   DictGet(scenarios, scenario_type), NoMetrics, <<>>)
          ELSE Response("get_scenario_data", "None", scenario_type,
                   EmptyDataset, NoMetrics, <<>>)
    /\ UNCHANGED <<module, hashOrder, input, financial_data, scenarios, scenarios_generated>>
    /\ UNCHANGED excel

Next ==
    \/ \E t \in ScenarioTypes \cup InvalidTypes, p \in ParamChoices : GenerateScenario(t, p)
    \/ SvcGenerateRealistic
    \/ \E t \in {PESSIMISTIC, OPTIMISTIC, AGGRESSIVE} : SvcGenerate(t)
    \/ SvcGenerateAll
    \/ \E t \in ScenarioTypes \cup InvalidTypes : GetScenarioData(t)

Spec == Init /\ [][Next]_vars

\* the datasets with revenue, variable costs and fixed expenses, for clients
\* that call the same instance several times
RepeatedDatasets ==
    {d \in Datasets : {REVENUE, VARIABLE_COSTS, COMMERCIAL_EXPENSES} \subseteq DOMAIN d}
    \cup {FixtureDataset}

InitRepeated == Start(RepeatedDatasets, MaxRepeatedCalls)

SpecRepeated == InitRepeated /\ [][Next]_vars

(***************************************************************************)
(* api/endpoints/scenarios.py: create_scenario, the request handler that   *)
(* generates a scenario from a ScenarioCreateRequest.                      *)
(***************************************************************************)
\* schemas/scenarios.py: the fields of ScenarioParameter
ScenarioParameterFields ==
    {"revenue_growth", "cost_reduction", "expense_growth", "investment_growth"}

\* the parameters of a request, in percent as the schema documents them;
\* a field that is unset or None is absent
RequestChoices ==
    {NoParams,
     [revenue_growth |-> -3],
     [cost_reduction |-> 2, expense_growth |-> 2],
     [investment_growth |-> 5]}

\* scenario_data.parameters.dict(exclude_unset=True, exclude_none=True)
GeneratorParams(request) ==
    [k \in DOMAIN request \cap ScenarioParameterFields |-> request[k]]

\* create_scenario: a new ScenarioGenerator generates the scenario from the
\* stored dataset; any exception becomes HTTP 500.
CreateScenario(scenario_type, request) ==
    /\ module = "scenario_generator"
    /\ calls > 0
    /\ calls' = calls - 1
    /\ LET generator_params == GeneratorParams(request)
           normalized == NormalizeFinancialData(input)
           generated == GenerateByType(Deepcopy(normalized).data, scenario_type,
                                       generator_params)
       IN  response' =
              IF generated.raised
              THEN Response("create_scenario", "HTTP_500", scenario_type,
                       EmptyDataset, NoMetrics, <<"Erro ao gerar cenario">>)
              ELSE Response("create_scenario", "HTTP_201", scenario_type,
                       generated.data, CalculateScenarioMetrics(generated.data), <<>>)
    /\ UNCHANGED <<module, hashOrder, input, financial_data, scenarios,
                   scenarios_generated>>
    /\ UNCHANGED excel

NextApi == \E t \in ScenarioTypes, request \in RequestChoices : CreateScenario(t, request)

InitApi == Start(Datasets, MaxCalls) /\ module = "scenario_generator"

SpecApi == InitApi /\ [][NextApi]_vars

(***************************************************************************)
(* excel_processor.py: _extract_financial_data walks the sheets of the     *)
(* workbook and classifies each of them.                                   *)
(***************************************************************************)
\* one iteration of the loop: the next sheet of the workbook is classified
IdentifySheet ==
    /\ Len(sheet_categories) < Len(workbook)
    /\ LET sheet == workbook[Len(sheet_categories) + 1]
       IN  sheet_categories' =
               Append(sheet_categories, IdentifySheetCategory(sheet.name, sheet.df))
    /\ UNCHANGED <<module, calls, workbook, processor, result, export>>
    /\ UNCHANGED generator
    /\ UNCHANGED web

NextExcel == IdentifySheet

\* ExcelProcessor.__init__, then a workbook has been read
InitExcel ==
    /\ module = "excel_processor"
    /\ hashOrder = CanonicalOrder
    /\ input = EmptyDataset
    /\ financial_data = EmptyDataset
    /\ scenarios = <<>>
    /\ scenarios_generated = <<>>
    /\ response = NoResponse
    /\ calls = 0
    /\ workbook \in Workbooks
    /\ sheet_categories = <<>>
    /\ processor = NewProcessor
    /\ result = NoResult
    /\ export = NoExport
    /\ db = NoDb
    /\ requests = NoRequests

SpecExcel == InitExcel /\ [][NextExcel]_vars

(***************************************************************************)
(* excel_processor.py: a client constructs an ExcelProcessor and calls     *)
(* process_excel_data on it, up to MaxProcessCalls times, then exports the *)
(* data it holds and gives the exported file to a new ExcelProcessor.      *)
(***************************************************************************)
\* processor.process_excel_data(content); workbook keeps the sheets read
ProcessCall(content) ==
    /\ module = "excel_processor"
    /\ calls > 0
    /\ export.status = "none"
    /\ calls' = calls - 1
    /\ workbook' = content.sheets
    /\ \E done \in {ProcessExcelData(processor, content)} :
           /\ processor' = done.processor
           /\ result' = done.result
    /\ UNCHANGED <<module, sheet_categories, export>>
    /\ UNCHANGED generator
    /\ UNCHANGED web

\* processor.export_processed_data(output_path) after a call
ExportCall ==
    /\ module = "excel_processor"
    /\ result.status # "none"
    /\ export.status = "none"
    /\ \E exported \in {ExportProcessedData(processor)} :
           export' = [status |-> exported.status, file |-> exported.file,
                      again |-> NoResult]
    /\ UNCHANGED <<module, calls, workbook, sheet_categories, processor, result>>
    /\ UNCHANGED generator
    /\ UNCHANGED web

\* ExcelProcessor().process_excel_data(the bytes of the exported file)
ProcessExport ==
    /\ module = "excel_processor"
    /\ export.status \notin {"none", "ValueError"}
    /\ export.again.status = "none"
    /\ export' = [export EXCEPT !.again = ProcessExcelData(NewProcessor, export.file).result]
    /\ UNCHANGED <<module, calls, workbook, sheet_categories, processor, result>>
    /\ UNCHANGED generator
    /\ UNCHANGED web

NextProcessor ==
    \/ \E content \in Contents : ProcessCall(content)
    \/ ExportCall
    \/ ProcessExport

\* ExcelProcessor.__init__
InitProcessor ==
    /\ module = "excel_processor"
    /\ hashOrder = CanonicalOrder
    /\ input = EmptyDataset
    /\ financial_data = EmptyDataset
    /\ scenarios = <<>>
    /\ scenarios_generated = <<>>
    /\ response = NoResponse
    /\ calls = MaxProcessCalls
    /\ workbook = <<>>
    /\ sheet_categories = <<>>
    /\ processor = NewProcessor
    /\ result = NoResult
    /\ export = NoExport
    /\ db = NoDb
    /\ requests = NoRequests

SpecProcessor == InitProcessor /\ [][NextProcessor]_vars

(***************************************************************************)
(* api/endpoints/financial.py and api/endpoints/spreadsheets.py: the       *)
(* request handlers that call process_excel_data.  A handler runs from one *)
(* await on the database to the next without interruption; between two    *)
(* awaits the handlers of other requests may run.                          *)
(***************************************************************************)
\* the requests the clients make
MaxRequests == 2

HTTP_200_OK == 200
HTTP_201_CREATED == 201
HTTP_400_BAD_REQUEST == 400
HTTP_422_UNPROCESSABLE_ENTITY == 422
HTTP_500_INTERNAL_SERVER_ERROR == 500

\* the owner of the uploaded spreadsheet and another user, neither an admin
Users == {"u1", "u2"}

\* the id of the uploaded spreadsheet and an id that no document has
SpreadsheetIds == {"s1", "s2"}

\* the files behind the uploaded spreadsheet and the uploads
WebContents ==
    {Unreadable,
     [readable |-> TRUE, sheets |-> <<SheetPlan2>>],
     [readable |-> TRUE, sheets |-> <<SheetResumo>>],
     [readable |-> TRUE, sheets |-> <<SheetVendas, SheetMarketing>>]}

\* required_categories: None, or the ids that must be found
RequiredChoices == {{}, {REVENUE}}

\* the document that upload_spreadsheet inserted for the file
Uploaded(content) ==
    [id |-> "s1", user_id |-> "u1", content |-> content, processed |-> FALSE,
     financial_data_id |-> 0, categories |-> {}]

\* the result of find_one when no document matches
NoSpreadsheet == [found |-> FALSE, doc |-> Uploaded(Unreadable)]

\* db["spreadsheets"].find_one({"_id": ObjectId(spreadsheet_id)})
FindSpreadsheet(spreadsheets, spreadsheet_id) ==
    IF \E i \in 1..Len(spreadsheets) : spreadsheets[i].id = spreadsheet_id
    THEN [found |-> TRUE,
          doc |-> spreadsheets[CHOOSE i \in 1..Len(spreadsheets) :
                                   /\ spreadsheets[i].id = spreadsheet_id
                                   /\ \A j \in 1..(i - 1) : spreadsheets[j].id # spreadsheet_id]]
    ELSE NoSpreadsheet

\* the documents of db["financial_data"] with the spreadsheet_id, in insertion order
FinancialDataOf(records, spreadsheet_id) ==
    SelectSeq(records, LAMBDA d : d.spreadsheet_id = spreadsheet_id)

\* a request that the server has received
NewRequest(endpoint, spreadsheet_id, user, required_categories) ==
    [endpoint |-> endpoint, spreadsheet_id |-> spreadsheet_id, user |-> user,
     required_categories |-> required_categories, pc |-> "find_one",
     spreadsheet |-> NoSpreadsheet, process_result |-> NoResult,
     financial_data_id |-> 0, status_code |-> 0, message |-> "none",
     categories |-> {}, metadata |-> NewProcessor.metadata]

\* the handler leaves with the status code
Answered(request, status_code, message) ==
    [request EXCEPT !.pc = "done", !.status_code = status_code, !.message = message]

\* the handler returns a response body
Returned(request, status_code, message, categories, metadata) ==
    [Answered(request, status_code, message) EXCEPT !.categories = categories,
                                                    !.metadata = metadata]

\* financial.py upload_financial_data after the extension check:
\* 'except Exception' answers whatever process_excel_data raises
UploadAnswer(request, done) ==
    IF done.status = "success"
    THEN Returned([request EXCEPT !.process_result = done], HTTP_201_CREATED,
                  "success", done.categories, done.metadata)
    ELSE Answered([request EXCEPT !.process_result = done],
                  HTTP_500_INTERNAL_SERVER_ERROR, "Erro ao processar o arquivo")

\* financial.py: upload_financial_data(file)
UploadFinancialData(is_excel_name, content) ==
    /\ module = "endpoints"
    /\ Len(requests) < MaxRequests
    /\ requests' =
          Append(requests,
              IF ~is_excel_name
              THEN Answered(NewRequest("upload_financial_data", "", "", {}),
                            HTTP_400_BAD_REQUEST, "Formato de arquivo invalido")
              ELSE UploadAnswer(NewRequest("upload_financial_data", "", "", {}),
                                ProcessExcelData(NewProcessor, content).result))
    /\ UNCHANGED <<module, calls, workbook, sheet_categories, processor, result,
                   export, db>>
    /\ UNCHANGED generator

\* spreadsheets.py: a client posts /{spreadsheet_id}/process
ReceiveProcess(spreadsheet_id, user, required_categories) ==
    /\ module = "endpoints"
    /\ Len(requests) < MaxRequests
    /\ requests' = Append(requests,
                       NewRequest("process_spreadsheet", spreadsheet_id, user,
                                  required_categories))
    /\ UNCHANGED <<module, calls, workbook, sheet_categories, processor, result,
                   export, db>>
    /\ UNCHANGED generator

\* process_spreadsheet from process_excel_data's return to the next await:
\* the HTTPException for a missing category is raised inside the try and
\* caught by 'except Exception'
AfterProcessing(request, done, financial_data_id) ==
    IF done.status # "success"
    THEN Answered([request EXCEPT !.process_result = done],
                  HTTP_422_UNPROCESSABLE_ENTITY, done.message)
    ELSE IF request.required_categories \ done.metadata.categories_found # {}
    THEN Answered([request EXCEPT !.process_result = done],
                  HTTP_500_INTERNAL_SERVER_ERROR, "Erro ao processar planilha")
    ELSE [request EXCEPT !.process_result = done,
                         !.financial_data_id = financial_data_id,
                         !.pc = "insert_one"]

\* process_spreadsheet from the result of the first find_one to the next
\* await: the HTTPExceptions 404 and 403 are raised inside the try and
\* caught by 'except Exception'
AfterFindOne(request, spreadsheet, financial_data_id) ==
    IF ~spreadsheet.found
    THEN Answered(request, HTTP_500_INTERNAL_SERVER_ERROR, "Erro ao processar planilha")
    ELSE IF spreadsheet.doc.user_id # request.user
    THEN Answered([request EXCEPT !.spreadsheet = spreadsheet],
                  HTTP_500_INTERNAL_SERVER_ERROR, "Erro ao processar planilha")
    ELSE IF spreadsheet.doc.processed
    THEN [request EXCEPT !.spreadsheet = spreadsheet, !.pc = "get_find_spreadsheet"]
    ELSE AfterProcessing([request EXCEPT !.spreadsheet = spreadsheet],
                         ProcessExcelData(NewProcessor, spreadsheet.doc.content).result,
                         financial_data_id)

\* process_spreadsheet: await db["spreadsheets"].find_one(...) and the code
\* up to the next await; ObjectId() is new for every request
ProcessFindOne(r) ==
    /\ module = "endpoints"
    /\ r \in 1..Len(requests)
    /\ requests[r].endpoint = "process_spreadsheet"
    /\ requests[r].pc = "find_one"
    /\ requests' = [requests EXCEPT ![r] =
                       AfterFindOne(requests[r],
                           FindSpreadsheet(db.spreadsheets, requests[r].spreadsheet_id), r)]
    /\ UNCHANGED <<module, calls, workbook, sheet_categories, processor, result,
                   export, db>>
    /\ UNCHANGED generator

\* the document given to db["financial_data"].insert_one
FinancialDataDocument(request) ==
    [id |-> request.financial_data_id,
     spreadsheet_id |-> request.spreadsheet_id,
     user_id |-> request.user,
     data |-> request.process_result.data,
     metadata |-> request.process_result.metadata]

\* process_spreadsheet: await db["financial_data"].insert_one(...); the
\* driver stores the document, or raises because it cannot encode it
ProcessInsertOne(r, stored) ==
    /\ module = "endpoints"
    /\ r \in 1..Len(requests)
    /\ requests[r].pc = "insert_one"
    /\ IF stored
       THEN /\ db' = [db EXCEPT !.financial_data =
                         Append(@, FinancialDataDocument(requests[r]))]
            /\ requests' = [requests EXCEPT ![r].pc = "update_one"]
       ELSE /\ requests' = [requests EXCEPT ![r] =
                               Answered(@, HTTP_500_INTERNAL_SERVER_ERROR,
                                        "Erro ao processar planilha")]
            /\ UNCHANGED db
    /\ UNCHANGED <<module, calls, workbook, sheet_categories, processor, result,
                   export>>
    /\ UNCHANGED generator

\* update_one({"_id": ...}, {"$set": {"processed": True, "financial_data_id":
\* ..., "categories": ...}})
SetProcessed(spreadsheets, request) ==
    [i \in 1..Len(spreadsheets) |->
        IF spreadsheets[i].id = request.spreadsheet_id
        THEN [spreadsheets[i] EXCEPT
                 !.processed = TRUE,
                 !.financial_data_id = request.financial_data_id,
                 !.categories = request.process_result.categories]
        ELSE spreadsheets[i]]

\* process_spreadsheet: await db["spreadsheets"].update_one(...) and the response
ProcessUpdateOne(r) ==
    /\ module = "endpoints"
    /\ r \in 1..Len(requests)
    /\ requests[r].pc = "update_one"
    /\ db' = [db EXCEPT !.spreadsheets = SetProcessed(@, requests[r])]
    /\ requests' = [requests EXCEPT ![r] =
                       Returned(@, HTTP_200_OK, "Processamento concluido com sucesso",
                                @.process_result.categories, @.process_result.metadata)]
    /\ UNCHANGED <<module, calls, workbook, sheet_categories, processor, result,
                   export>>
    /\ UNCHANGED generator

\* get_processed_data: await db["spreadsheets"].find_one(...); its 404 is
\* raised inside process_spreadsheet's try
GetFindSpreadsheet(r) ==
    /\ module = "endpoints"
    /\ r \in 1..Len(requests)
    /\ requests[r].pc = "get_find_spreadsheet"
    /\ \E spreadsheet \in {FindSpreadsheet(db.spreadsheets, requests[r].spreadsheet_id)} :
           requests' = [requests EXCEPT ![r] =
               IF ~spreadsheet.found
               THEN Answered(@, HTTP_500_INTERNAL_SERVER_ERROR, "Erro ao processar planilha")
               ELSE [@ EXCEPT !.spreadsheet = spreadsheet,
                              !.pc = "get_find_financial_data"]]
    /\ UNCHANGED <<module, calls, workbook, sheet_categories, processor, result,
                   export, db>>
    /\ UNCHANGED generator

\* get_processed_data: await db["financial_data"].find_one({"spreadsheet_id":
\* spreadsheet_id}) and the response
GetFindFinancialData(r) ==
    /\ module = "endpoints"
    /\ r \in 1..Len(requests)
    /\ requests[r].pc = "get_find_financial_data"
    /\ \E found \in {FinancialDataOf(db.financial_data, requests[r].spreadsheet_id)} :
           requests' = [requests EXCEPT ![r] =
               IF found = <<>>
               THEN Answered(@, HTTP_500_INTERNAL_SERVER_ERROR, "Erro ao processar planilha")
               ELSE Returned(@, HTTP_200_OK, "Dados ja processados anteriormente",
                             @.spreadsheet.doc.categories, Head(found).metadata)]
    /\ UNCHANGED <<module, calls, workbook, sheet_categories, processor, result,
                   export, db>>
    /\ UNCHANGED generator

NextEndpoints ==
    \/ \E is_excel_name \in BOOLEAN, content \in WebContents :
           UploadFinancialData(is_excel_name, content)
    \/ \E spreadsheet_id \in SpreadsheetIds, user \in Users,
          required_categories \in RequiredChoices :
           ReceiveProcess(spreadsheet_id, user, required_categories)
    \/ \E r \in 1..MaxRequests : ProcessFindOne(r)
    \/ \E r \in 1..MaxRequests, stored \in BOOLEAN : ProcessInsertOne(r, stored)
    \/ \E r \in 1..MaxRequests : ProcessUpdateOne(r)
    \/ \E r \in 1..MaxRequests : GetFindSpreadsheet(r)
    \/ \E r \in 1..MaxRequests : GetFindFinancialData(r)

\* the server with one uploaded spreadsheet that is not processed yet
InitEndpoints ==
    /\ module = "endpoints"
    /\ hashOrder = CanonicalOrder
    /\ input = EmptyDataset
    /\ financial_data = EmptyDataset
    /\ scenarios = <<>>
    /\ scenarios_generated = <<>>
    /\ response = NoResponse
    /\ calls = 0
    /\ workbook = <<>>
    /\ sheet_categories = <<>>
    /\ processor = NewProcessor
    /\ result = NoResult
    /\ export = NoExport
    /\ \E content \in WebContents :
           db = [spreadsheets |-> <<Uploaded(content)>>, financial_data |-> <<>>]
    /\ requests = NoRequests

SpecEndpoints == InitEndpoints /\ [][NextEndpoints]_vars

(***************************************************************************)
(* Vocabulary of the properties.                                           *)
(***************************************************************************)
\* the last call generated a scenario and returned its data
Generated ==
    /\ response.status = "success"
    /\ response.op \in {"generate_scenario", "generate_realistic_scenario"}

\* the sum of column c over the rows of category k (0 when k or c is absent)
CategoryColumnSum(data, k, c) ==
    IF k \in DOMAIN data /\ c \in DOMAIN data[k].cell THEN ColSum(data[k], c) ELSE 0

FixedExpenseSum(data, c) ==
    CategoryColumnSum(data, PERSONNEL_EXPENSES, c)
    + CategoryColumnSum(data, COMMERCIAL_EXPENSES, c)
    + CategoryColumnSum(data, ADMIN_EXPENSES, c)

BaseCategories == Range(BaseCategoryOrder)

\* the columns that are numeric in every base category of the dataset
CommonColumns(data) ==
    IF BaseCategories \cap DOMAIN data = {} THEN {}
    ELSE {c \in Labels : \A k \in BaseCategories \cap DOMAIN data :
                             c \in Range(data[k].cols)}

HasColumn(data, k, c) == k \in DOMAIN data /\ c \in Range(data[k].cols)

\* C1: in every generated scenario that has a revenue and a variable-cost
\* table, for every common numeric column c the
\* contribution-margin table has column c and its sum over the rows is the
\* revenue sum of c minus the variable-cost sum of c.
C1_MarginIdentity ==
    (Generated /\ {REVENUE, VARIABLE_COSTS} \subseteq DOMAIN response.data) =>
        \A c \in CommonColumns(response.data) :
            /\ HasColumn(response.data, CONTRIBUTION_MARGIN, c)
            /\ CategoryColumnSum(response.data, CONTRIBUTION_MARGIN, c)
                 = CategoryColumnSum(response.data, REVENUE, c)
                   - CategoryColumnSum(response.data, VARIABLE_COSTS, c)

\* C2: in every generated scenario that has a revenue and a variable-cost
\* table, for every common numeric column c the
\* cash-flow table has column c and its sum over the rows is the
\* contribution margin of c minus the fixed-expense sum of c, an absent
\* fixed-expense table counting as 0.
C2_CashFlowIdentity ==
    (Generated /\ {REVENUE, VARIABLE_COSTS} \subseteq DOMAIN response.data) =>
        \A c \in CommonColumns(response.data) :
            /\ HasColumn(response.data, CASH_FLOW, c)
            /\ CategoryColumnSum(response.data, CASH_FLOW, c)
                 = CategoryColumnSum(response.data, CONTRIBUTION_MARGIN, c)
                   - FixedExpenseSum(response.data, c)

\* the base tables of the dataset all list the same numeric columns in the
\* same order: that order is the dataset's column order
SameColumnOrder(data) ==
    \A j, k \in BaseCategories \cap DOMAIN data : data[j].cols = data[k].cols

DatasetColumns(data) ==
    data[CHOOSE k \in BaseCategories \cap DOMAIN data : TRUE].cols

\* C3: in every generated scenario whose base tables share one column
\* order, the final balance of the i-th column is the sum of the cash flows
\* of the columns 1..i in that order.
C3_CumulativeBalance ==
    (/\ Generated
     /\ BaseCategories \cap DOMAIN response.data # {}
     /\ SameColumnOrder(response.data))
    => LET order == DatasetColumns(response.data)
       IN  \A i \in 1..Len(order) :
               CategoryColumnSum(response.data, FINAL_BALANCE, order[i])
                 = SumSeq([j \in 1..i |->
                       CategoryColumnSum(response.data, CASH_FLOW, order[j])])

\* table t of the output holds the rows, columns, numeric cells and text
\* cells of table u
SameContents(t, u) ==
    /\ t.nrows = u.nrows
    /\ t.cols = u.cols
    /\ t.cell = u.cell
    /\ t.txt = u.txt
    /\ t.text = u.text

\* the last call generated the realistic scenario
GeneratedRealistic == Generated /\ response.scenario_type = REALISTIC

\* C4: when the realistic scenario is generated, the output has exactly the
\* input's categories plus the three derived ones, and every input table
\* comes back with the same rows, columns, numeric cells and text cells.
C4_RealisticReproducesInput ==
    GeneratedRealistic =>
        /\ DOMAIN response.data = DOMAIN input \cup Range(CALCULATED_CATEGORIES)
        /\ \A k \in DOMAIN input : SameContents(response.data[k], input[k])

\* the realistic scenario of a dataset with revenue from a list of records,
\* fixed expenses and investments has been generated
C4_Witness ==
    /\ GeneratedRealistic
    /\ module = "scenario_generator"
    /\ {REVENUE, COMMERCIAL_EXPENSES, INVESTMENTS} \subseteq DOMAIN input
    /\ input[REVENUE].kind = "list"
    /\ GrandSum(input[REVENUE]) # 0

\* C5: a generate_scenario call with a scenario type outside the four known
\* ones ends in an invalid-input error whose message names the type, and
\* leaves the stored scenarios, the scenarios_generated metadata and the
\* held financial data as they were before the call.
C5_UnknownTypeChangesNothing ==
    [][\A t \in InvalidTypes, p \in ParamChoices :
          GenerateScenario(t, p) =>
              /\ response'.status = "ValueError"
              /\ t \in Range(response'.message)
              /\ scenarios' = scenarios
              /\ scenarios_generated' = scenarios_generated
              /\ financial_data' = financial_data]_vars

\* the step is a generate_scenario(input, t, p) call of scenario_generator.py
\* that returns a scenario
Generates(t, p) ==
    /\ response'.status = "success"
    /\ response'.scenario_type = t
    /\ GenerateScenario(t, p)

\* the step is the scenario_service.py call that generates scenario t
SvcGenerates(t) ==
    /\ response'.scenario_type = t
    /\ SvcGenerate(t)

\* the adjustment the specification gives for a parameter of a scenario
\* type: the caller's value when the parameters name it, else the default
Adjustment(scenario_type, parameters, key) ==
    IF key \in DOMAIN parameters THEN parameters[key]
    ELSE IF scenario_type = PESSIMISTIC
         THEN (IF key = "revenue_adjustment" THEN -150 ELSE 100)
         ELSE (IF key = "revenue_adjustment" THEN 200 ELSE -50)

\* every numeric cell of table t is the cell of table u times (1 + adj),
\* adj in thousandths, and the text columns of t are those of u
TimesAdjustment(t, u, adj) ==
    /\ t.nrows = u.nrows /\ t.cols = u.cols
    /\ \A c \in Range(u.cols) : \A r \in 1..u.nrows :
           t.cell[c][r] * 1000 = u.cell[c][r] * (1000 + adj)
    /\ t.txt = u.txt /\ t.text = u.text

\* the output out is the dataset original with revenue, variable costs and
\* fixed expenses adjusted and the investments untouched
AdjustedFrom(out, original, scenario_type, parameters) ==
    \A k \in DOMAIN original :
        /\ k \in DOMAIN out
        /\ TimesAdjustment(out[k], original[k],
              IF k \in Range(REVENUE_CATEGORIES)
              THEN Adjustment(scenario_type, parameters, "revenue_adjustment")
              ELSE IF k \in Range(VARIABLE_COST_CATEGORIES)
              THEN Adjustment(scenario_type, parameters, "cost_adjustment")
              ELSE IF k \in Range(FIXED_EXPENSE_CATEGORIES)
              THEN Adjustment(scenario_type, parameters, "expense_adjustment")
              ELSE 0)

\* C6: a pessimistic or optimistic scenario multiplies every numeric cell of
\* the revenue by 1 + revenue_adjustment, of the variable costs by
\* 1 + cost_adjustment and of each fixed-expense table by
\* 1 + expense_adjustment (defaults -0.15/+0.10/+0.10 and +0.20/-0.05/-0.05)
\* and leaves the investments and every text column as they were.
C6_AdjustmentMultipliers ==
    [][/\ \A t \in {PESSIMISTIC, OPTIMISTIC}, p \in ParamChoices :
              Generates(t, p) => AdjustedFrom(response'.data, input, t, p)
       /\ \A t \in {PESSIMISTIC, OPTIMISTIC} :
              SvcGenerates(t) => AdjustedFrom(response'.data, input, t, NoParams)
      ]_vars

\* the pessimistic scenario of the tests' fixture has been generated with
\* the default parameters: revenue Jan 300000 became 255000 and variable
\* costs Jan 90000 became 99000
C6_Witness ==
    /\ Generated
    /\ response.scenario_type = PESSIMISTIC
    /\ input = FixtureDataset
    /\ CategoryColumnSum(input, REVENUE, "Jan") = 300000
    /\ CategoryColumnSum(response.data, REVENUE, "Jan") = 255000
    /\ CategoryColumnSum(input, VARIABLE_COSTS, "Jan") = 90000
    /\ CategoryColumnSum(response.data, VARIABLE_COSTS, "Jan") = 99000

\* a < b for the pessimistic scenario, a > b for the optimistic one
Worse(scenario_type, a, b) == IF scenario_type = PESSIMISTIC THEN a < b ELSE a > b

\* the column sums a property is stated for
Applies(which, sum) ==
    IF which = "positive" THEN sum > 0
    ELSE IF which = "non-negative" THEN sum >= 0
    ELSE TRUE

\* per table and numeric column, scenario out of type t moves the summed
\* revenue of the realistic data one way and the summed variable costs and
\* fixed expenses the other way; which selects the columns by their
\* realistic sum
Directional(out, realistic, t, which) ==
    \A k \in DOMAIN realistic \cap BaseCategories : \A c \in Range(realistic[k].cols) :
        Applies(which, ColSum(realistic[k], c)) =>
            IF k \in Range(REVENUE_CATEGORIES)
            THEN Worse(t, CategoryColumnSum(out, k, c), ColSum(realistic[k], c))
            ELSE IF k \in Range(VARIABLE_COST_CATEGORIES) \cup Range(FIXED_EXPENSE_CATEGORIES)
            THEN Worse(t, ColSum(realistic[k], c), CategoryColumnSum(out, k, c))
            ELSE TRUE

\* the directions hold for every scenario a step generates with the default
\* parameters, in either implementation
DirectionalSteps(which) ==
    /\ \A t \in {PESSIMISTIC, OPTIMISTIC} :
           Generates(t, NoParams) => Directional(response'.data, input, t, which)
    /\ \A t \in {PESSIMISTIC, OPTIMISTIC} :
           SvcGenerates(t) =>
               Directional(response'.data, DictGet(scenarios', REALISTIC), t, which)
    /\ SvcGenerateAll =>
           \A t \in {PESSIMISTIC, OPTIMISTIC} :
               Directional(DictGet(scenarios', t), DictGet(scenarios', REALISTIC),
                           t, which)

\* C7 as stated: with revenue data present, for every numeric column the
\* pessimistic summed revenue is below the realistic one and the optimistic
\* above it, and the reverse holds for the summed variable costs and fixed
\* expenses, all strictly.
C7_StrictDirections == [][DirectionalSteps("any")]_vars

\* C7 amended: the strict directions hold, with the default adjustments, for
\* every numeric column whose realistic sum is strictly positive.
C7_StrictDirectionsOfPositiveSums == [][DirectionalSteps("positive")]_vars

\* all scenarios of a dataset with positive revenue, variable-cost and
\* fixed-expense columns have been generated, and the pessimistic revenue of
\* Fev is below the realistic one, which is below the optimistic one
C7_Witness ==
    /\ module = "scenario_service"
    /\ DictHas(scenarios, PESSIMISTIC) /\ DictHas(scenarios, OPTIMISTIC)
    /\ {REVENUE, VARIABLE_COSTS, COMMERCIAL_EXPENSES} \subseteq DOMAIN input
    /\ CategoryColumnSum(input, VARIABLE_COSTS, "Jan") > 0
    /\ CategoryColumnSum(input, COMMERCIAL_EXPENSES, "Fev") > 0
    /\ CategoryColumnSum(DictGet(scenarios, REALISTIC), REVENUE, "Fev") > 0
    /\ CategoryColumnSum(DictGet(scenarios, PESSIMISTIC), REVENUE, "Fev")
         < CategoryColumnSum(DictGet(scenarios, REALISTIC), REVENUE, "Fev")
    /\ CategoryColumnSum(DictGet(scenarios, REALISTIC), REVENUE, "Fev")
         < CategoryColumnSum(DictGet(scenarios, OPTIMISTIC), REVENUE, "Fev")

\* per table and numeric column, the aggressive scenario out has at least
\* 1.15 times the summed revenue of the realistic data, and more than its
\* summed investments; the two selections name the columns by their
\* realistic sum
Aggressive(out, realistic, revenue_of, investments_of) ==
    \A k \in DOMAIN realistic \cap BaseCategories : \A c \in Range(realistic[k].cols) :
        IF k \in Range(REVENUE_CATEGORIES)
        THEN Applies(revenue_of, ColSum(realistic[k], c)) =>
                 CategoryColumnSum(out, k, c) * 100 >= 115 * ColSum(realistic[k], c)
        ELSE IF k \in Range(INVESTMENT_CATEGORIES)
        THEN Applies(investments_of, ColSum(realistic[k], c)) =>
                 CategoryColumnSum(out, k, c) > ColSum(realistic[k], c)
        ELSE TRUE

\* the bounds hold for every aggressive scenario a step generates with the
\* default parameters, in either implementation
AggressiveSteps(revenue_of, investments_of) ==
    /\ Generates(AGGRESSIVE, NoParams) =>
           Aggressive(response'.data, input, revenue_of, investments_of)
    /\ SvcGenerates(AGGRESSIVE) =>
           Aggressive(response'.data, DictGet(scenarios', REALISTIC),
                      revenue_of, investments_of)
    /\ SvcGenerateAll =>
           Aggressive(DictGet(scenarios', AGGRESSIVE), DictGet(scenarios', REALISTIC),
                      revenue_of, investments_of)

\* C8 as stated: with the default parameters the aggressive summed revenue
\* of every numeric column is at least 1.15 times the realistic one, and the
\* summed investments of every numeric column exceed the original ones.
C8_AggressiveBounds == [][AggressiveSteps("any", "any")]_vars

\* C8 amended: the revenue bound holds for the columns whose realistic sum
\* is not negative, the investment bound for the columns whose original sum
\* is strictly positive.
C8_AggressiveBoundsOfPositiveSums == [][AggressiveSteps("non-negative", "positive")]_vars

\* the aggressive scenario of a dataset with a positive revenue column and a
\* positive investment column has been generated with the defaults
C8_Witness ==
    /\ module = "scenario_service"
    /\ DictHas(scenarios, AGGRESSIVE)
    /\ CategoryColumnSum(input, REVENUE, "Fev") > 0
    /\ CategoryColumnSum(input, INVESTMENTS, "Jan") > 0
    /\ CategoryColumnSum(DictGet(scenarios, AGGRESSIVE), REVENUE, "Fev") * 100
         >= 115 * CategoryColumnSum(input, REVENUE, "Fev")
    /\ CategoryColumnSum(DictGet(scenarios, AGGRESSIVE), INVESTMENTS, "Jan")
         > CategoryColumnSum(input, INVESTMENTS, "Jan")

\* every cell of the i-th numeric column of each revenue table of out is the
\* cell of original times 1 + initial_growth + (i - 1) * growth_rate
\* (positions from 1, growths in thousandths)
GrownFrom(out, original, initial_growth, growth_rate) ==
    \A k \in DOMAIN original \cap Range(REVENUE_CATEGORIES) :
        /\ out[k].cols = original[k].cols
        /\ \A i \in 1..Len(original[k].cols) : \A r \in 1..original[k].nrows :
               out[k].cell[original[k].cols[i]][r] * 1000
                 = original[k].cell[original[k].cols[i]][r]
                     * (1000 + initial_growth + (i - 1) * growth_rate)

\* the caller's value of an aggressive-growth parameter, else its default
Growth(parameters, key) ==
    IF key \in DOMAIN parameters THEN parameters[key]
    ELSE IF key = "initial_growth" THEN 300 ELSE 50

\* C9: the aggressive scenario multiplies every cell of the i-th numeric
\* column of the revenue table (i from 0, in the table's column order) by
\* 1 + initial_growth + i * growth_rate, with the defaults 0.30 and 0.05.
C9_RevenueGrowthPerColumn ==
    [][/\ \A p \in ParamChoices :
              Generates(AGGRESSIVE, p) =>
                  GrownFrom(response'.data, input,
                            Growth(p, "initial_growth"), Growth(p, "growth_rate"))
       /\ SvcGenerates(AGGRESSIVE) => GrownFrom(response'.data, input, 300, 50)
      ]_vars

\* the aggressive scenario of a dataset with two positive revenue columns
\* has been generated with the defaults: the first column grew by 1.30 and
\* the second by 1.35
C9_Witness ==
    /\ Generated
    /\ response.scenario_type = AGGRESSIVE
    /\ REVENUE \in DOMAIN input
    /\ input[REVENUE].cols = <<"Jan", "Fev">>
    /\ ColSum(input[REVENUE], "Jan") > 0
    /\ ColSum(response.data[REVENUE], "Jan") * 1000 = ColSum(input[REVENUE], "Jan") * 1300
    /\ ColSum(response.data[REVENUE], "Fev") * 1000 = ColSum(input[REVENUE], "Fev") * 1350

\* every cell of column c of table k of out is the original cell times
\* 1 + share * (g - 1), share in tenths, where g is the summed revenue of
\* column c in out divided by the summed revenue of column c in original
\* (g in thousandths; stated where that quotient is a whole number)
FollowsRevenueOf(out, original, k, c, share) ==
    LET before == CategoryColumnSum(original, REVENUE, c)
        after == CategoryColumnSum(out, REVENUE, c)
        g == (after * 1000) \div before
    IN  (after * 1000) % before = 0 =>
            \A r \in 1..original[k].nrows :
                out[k].cell[c][r] * 1000
                  = original[k].cell[c][r] * (1000 + (share * (g - 1000)) \div 10)

\* C10: in a generated aggressive scenario every cell of a numeric column c
\* of the variable costs is the original cell times 1 + 0.8 * (g_c - 1) and
\* every cell of a numeric column c of a fixed-expense table the original
\* cell times 1 + 0.5 * (g_c - 1), g_c being the revenue growth ratio of the
\* column with the same label c (stated for the columns whose original
\* revenue sum is strictly positive).
C10_CostsFollowRevenueOfSameColumn ==
    (Generated /\ response.scenario_type = AGGRESSIVE /\ REVENUE \in DOMAIN input) =>
        \A k \in DOMAIN input :
            \A c \in Range(input[k].cols) \cap Range(input[REVENUE].cols) :
                ColSum(input[REVENUE], c) > 0 =>
                    /\ k \in Range(VARIABLE_COST_CATEGORIES)
                           => FollowsRevenueOf(response.data, input, k, c, 8)
                    /\ k \in Range(FIXED_EXPENSE_CATEGORIES)
                           => FollowsRevenueOf(response.data, input, k, c, 5)

\* C11: in a generated aggressive scenario, for every revenue column whose
\* original sum is 0 the growth ratio counts as 1.0: the cells of the
\* variable-cost and fixed-expense column with that label are the original
\* cells.
C11_ZeroRevenueColumnKeepsCosts ==
    (Generated /\ response.scenario_type = AGGRESSIVE /\ REVENUE \in DOMAIN input) =>
        \A k \in DOMAIN input \cap
                 (Range(VARIABLE_COST_CATEGORIES) \cup Range(FIXED_EXPENSE_CATEGORIES)) :
            \A c \in Range(input[k].cols) \cap Range(input[REVENUE].cols) :
                ColSum(input[REVENUE], c) = 0 =>
                    response.data[k].cell[c] = input[k].cell[c]

\* C12: no call changes the caller's dataset (same categories, same columns
\* and cells), and generating a pessimistic, optimistic or aggressive
\* scenario leaves the realistic scenario it starts from as it was stored.
C12_InputAndRealisticUntouched ==
    [][/\ input' = input
       /\ \A t \in {PESSIMISTIC, OPTIMISTIC, AGGRESSIVE} :
              SvcGenerates(t) =>
                  DictGet(scenarios', REALISTIC)
                    = IF DictHas(scenarios, REALISTIC)
                      THEN DictGet(scenarios, REALISTIC)
                      ELSE SvcRealistic(financial_data)
      ]_vars

\* a pessimistic scenario whose revenue differs from the caller's has been
\* generated from a dataset handed over as DataFrames
C12_Witness ==
    /\ Generated
    /\ response.scenario_type = PESSIMISTIC
    /\ REVENUE \in DOMAIN input
    /\ input[REVENUE].kind = "DataFrame"
    /\ response.data[REVENUE].cell # input[REVENUE].cell
    /\ DictHas(scenarios, PESSIMISTIC)

\* what scenario_service.py generates for type t on a new instance
SvcFresh(dataset, t) ==
    IF t = REALISTIC THEN SvcRealistic(dataset)
    ELSE SvcByType(SvcRealistic(dataset), t)

\* C13: whatever calls came before on the same instance, the data and the
\* metrics a generation returns are those a new instance returns for the
\* same dataset, scenario type and parameters.
C13_GenerationIgnoresHistory ==
    [][/\ \A t \in ScenarioTypes, p \in ParamChoices :
              Generates(t, p) =>
                  LET fresh == GenerateByType(NormalizeFinancialData(input), t, p).data
                  IN  /\ response'.data = fresh
                      /\ response'.metrics = CalculateScenarioMetrics(fresh)
       /\ (response'.op = "generate_realistic_scenario" /\ SvcGenerateRealistic) =>
              response'.data = SvcFresh(input, REALISTIC)
       /\ \A t \in {PESSIMISTIC, OPTIMISTIC, AGGRESSIVE} :
              SvcGenerates(t) => response'.data = SvcFresh(input, t)
       /\ (response'.op = "generate_all_scenarios" /\ SvcGenerateAll) =>
              \A t \in ScenarioTypes : DictGet(scenarios', t) = SvcFresh(input, t)
      ]_vars

\* an optimistic scenario has been generated on an instance that had
\* generated the pessimistic one in an earlier call
C13_Witness ==
    /\ Generated
    /\ response.scenario_type = OPTIMISTIC
    /\ DictHas(scenarios, PESSIMISTIC)
    /\ calls = MaxRepeatedCalls - 2
    /\ REVENUE \in DOMAIN response.data
    /\ DictGet(scenarios, PESSIMISTIC)[REVENUE] # response.data[REVENUE]

DerivedCategories == Range(CALCULATED_CATEGORIES)

\* the derived tables of the dataset list exactly the columns of the set
ExactlyColumns(data, columns) ==
    \A k \in DerivedCategories :
        k \in DOMAIN data /\ Range(data[k].cols) = columns

\* every column of the set carries, in the margin and cash-flow tables, the
\* values computed from the base tables' cells of the same label
OwnLabelValues(data, columns) ==
    \A c \in columns :
        /\ CategoryColumnSum(data, CONTRIBUTION_MARGIN, c)
             = CategoryColumnSum(data, REVENUE, c)
               - CategoryColumnSum(data, VARIABLE_COSTS, c)
        /\ CategoryColumnSum(data, CASH_FLOW, c)
             = CategoryColumnSum(data, CONTRIBUTION_MARGIN, c)
               - FixedExpenseSum(data, c)

\* some numeric column of a base table is missing from another base table
SomeColumnExcluded(data) ==
    \E k \in BaseCategories \cap DOMAIN data :
        Range(data[k].cols) # CommonColumns(data)

\* the dataset has revenue, variable costs and a fixed-expense table
AllGroupsPresent(data) ==
    /\ {REVENUE, VARIABLE_COSTS} \subseteq DOMAIN data
    /\ {PERSONNEL_EXPENSES, COMMERCIAL_EXPENSES, ADMIN_EXPENSES} \cap DOMAIN data # {}

\* C14: in every generated scenario with revenue, variable costs and fixed
\* expenses, the derived tables list exactly the columns that are numeric in
\* every base table (a column missing from one of them is in no derived
\* table), and each such column carries the values computed from the cells
\* of its own label.
C14_DerivedTablesHoldCommonColumns ==
    (Generated /\ AllGroupsPresent(response.data)) =>
        /\ ExactlyColumns(response.data, CommonColumns(response.data))
        /\ OwnLabelValues(response.data, CommonColumns(response.data))

\* the last call asked for a scenario of a known type
GenerationAttempted ==
    /\ response.op \in {"generate_scenario", "generate_realistic_scenario"}
    /\ response.scenario_type \in ScenarioTypes

\* the dataset has a base table but lacks revenue, variable costs or every
\* fixed-expense table
LacksBaseCategory(data) ==
    /\ BaseCategories \cap DOMAIN data # {}
    /\ ~AllGroupsPresent(data)

\* C15: generating a scenario of a known type for a dataset that lacks base
\* categories succeeds, the result has the three derived categories, and
\* its margin and cash flow are computed with 0 for every missing category.
C15_MissingCategoriesCountAsZero ==
    (GenerationAttempted /\ LacksBaseCategory(input)) =>
        /\ response.status = "success"
        /\ DerivedCategories \subseteq DOMAIN response.data
        /\ ExactlyColumns(response.data, CommonColumns(response.data))
        /\ OwnLabelValues(response.data, CommonColumns(response.data))

\* pd.DataFrame(): no rows, no numeric column, no text column
NoRowsNoColumns(df) == df.nrows = 0 /\ df.cols = <<>> /\ df.txt = <<>>

AllMetricsZero(metrics) ==
    /\ metrics.total_revenue = 0
    /\ metrics.total_costs = 0
    /\ metrics.total_expenses = 0
    /\ metrics.total_margin = 0
    /\ metrics.total_cashflow = 0
    /\ metrics.final_balance = 0
    /\ metrics.margin_percentage.num = 0
    /\ metrics.roi.num = 0

\* C16: generating a scenario of a known type for the dataset without
\* categories succeeds; the result holds the three derived tables and
\* nothing else, each without rows and columns, and all eight metrics are 0.
C16_EmptyDatasetGivesEmptyTables ==
    (GenerationAttempted /\ input = EmptyDataset) =>
        /\ response.status = "success"
        /\ DOMAIN response.data = DerivedCategories
        /\ \A k \in DerivedCategories : NoRowsNoColumns(response.data[k])
        /\ AllMetricsZero(response.metrics)

\* the aggressive scenario of the dataset without categories was generated
C16_Witness ==
    /\ Generated
    /\ input = EmptyDataset
    /\ response.scenario_type = AGGRESSIVE
    /\ DictHas(scenarios, AGGRESSIVE)

\* C17: in the metrics of every generated scenario no quotient has
\* denominator 0, margin_percentage is 0 when total_revenue is 0 and
\* total_margin / total_revenue * 100 otherwise, and roi is 0 when the total
\* investment is 0 and total_cashflow / total investment * 100 otherwise.
C17_PercentagesAreGuardedQuotients ==
    (Generated /\ module = "scenario_generator") =>
        LET metrics == response.metrics
            total_investment == TotalOf(response.data, INVESTMENT_CATEGORIES)
        IN  /\ metrics.margin_percentage.den # 0
            /\ metrics.roi.den # 0
            /\ metrics.margin_percentage
                 = PercentageOf(metrics.total_margin, metrics.total_revenue)
            /\ metrics.roi = PercentageOf(metrics.total_cashflow, total_investment)

\* the cumulative cash flow at the last period: the cash flows of all the
\* period columns of the scenario, added up
CumulativeCashFlow(data) ==
    SumSeq([i \in 1..Len(data[CASH_FLOW].cols) |->
               ColSum(data[CASH_FLOW], data[CASH_FLOW].cols[i])])

\* C18: in every scenario generated with a final-balance series, the metric
\* final_balance is the cumulative cash flow at the last period column,
\* whatever the number of rows and of period columns.
C18_FinalBalanceIsLastCumulativeCashFlow ==
    (/\ Generated
     /\ module = "scenario_generator"
     /\ response.data[FINAL_BALANCE].cols # <<>>)
    => response.metrics.final_balance = CumulativeCashFlow(response.data)

\* the step is create_scenario for scenario type t and the request
\* parameters, answered with 201
Creates(t, request) ==
    /\ response'.status = "HTTP_201"
    /\ response'.scenario_type = t
    /\ CreateScenario(t, request)

\* the generator's parameters a request stands for: each override under the
\* name the generator reads for scenario type t, taken as a percentage
\* (unit = 10 thousandths) or as a fraction (unit = 1000), a cost reduction
\* taken as a negative or as a positive cost adjustment
Overrides(t, request, unit, reduction) ==
    LET name == IF t = AGGRESSIVE
                THEN [investment_growth |-> "investment_adjustment"]
                ELSE [revenue_growth |-> "revenue_adjustment",
                      cost_reduction |-> "cost_adjustment",
                      expense_growth |-> "expense_adjustment"]
        given == DOMAIN request \cap DOMAIN name
    IN  [k \in {name[f] : f \in given} |->
            LET f == CHOOSE g \in given : name[g] = k
            IN  IF f = "cost_reduction" THEN reduction * request[f] * unit
                ELSE request[f] * unit]

\* C19: a scenario created from a request is the scenario the generator
\* produces when each override of the request replaces the default of the
\* corresponding adjustment (under some reading of its unit and sign), the
\* other adjustments keeping their defaults.
C19_RequestOverridesReplaceDefaults ==
    [][\A t \in ScenarioTypes, request \in RequestChoices :
          Creates(t, request) =>
              \E unit \in {10, 1000}, reduction \in {-1, 1} :
                  response'.data
                    = GenerateByType(NormalizeFinancialData(input), t,
                                     Overrides(t, request, unit, reduction)).data
      ]_vars

\* the text contains the keyword when upper and lower case are not told apart
ContainsIgnoringCase(text, keyword) ==
    \E i \in 0..(Len(text) - Len(keyword)) :
        \A j \in 1..Len(keyword) : LowerChar(text[i + j]) = LowerChar(keyword[j])

\* the categories with a keyword in the text
MatchedIn(text) ==
    {category \in Range(KeywordCategories) :
        \E k \in 1..Len(CATEGORY_KEYWORDS[category]) :
            ContainsIgnoringCase(text, CATEGORY_KEYWORDS[category][k])}

\* the cells of the text-typed columns as the sheet holds them, one column
\* after the other
RECURSIVE CellsOfTextColumns(_)
CellsOfTextColumns(columns) ==
    IF columns = <<>> THEN <<>>
    ELSE (IF Head(columns).dtype = "object" THEN Join(Head(columns).cells) ELSE <<>>)
         \o CellsOfTextColumns(Tail(columns))

Headers(columns) == Join([i \in 1..Len(columns) |-> columns[i].header])

\* the i-th sheet was classified by the first of the three passes that
\* matches: into a category of its name, else of its content, else of its
\* headers, else into none
FirstPassWins(i) ==
    LET sheet == workbook[i]
        byName == MatchedIn(sheet.name)
        byContent == MatchedIn(CellsOfTextColumns(sheet.df))
        byHeaders == MatchedIn(Headers(sheet.df))
    IN  IF byName # {} THEN sheet_categories[i] \in byName
        ELSE IF byContent # {} THEN sheet_categories[i] \in byContent
        ELSE IF byHeaders # {} THEN sheet_categories[i] \in byHeaders
        ELSE sheet_categories[i] = None

\* C20: every classified sheet has the category of the first pass that
\* matches in the order sheet name, text content, column headers, a keyword
\* matching as a substring whatever the case of the letters.
C20_FirstMatchingPassDecides ==
    \A i \in 1..Len(sheet_categories) : FirstPassWins(i)

\* a sheet whose name matches one category and whose content and headers
\* match others was classified by its name, and a sheet without a match in
\* the name, whose upper-case content matches one category and whose
\* headers match another, was classified by its content
C20_Witness ==
    \E i, j \in 1..Len(sheet_categories) :
        /\ MatchedIn(workbook[i].name) # {}
        /\ MatchedIn(CellsOfTextColumns(workbook[i].df)) \ MatchedIn(workbook[i].name) # {}
        /\ MatchedIn(Headers(workbook[i].df)) \ MatchedIn(workbook[i].name) # {}
        /\ sheet_categories[i] \in MatchedIn(workbook[i].name)
        /\ MatchedIn(workbook[j].name) = {}
        /\ FirstCategoryIn(CellsOfTextColumns(workbook[j].df)) = None
        /\ MatchedIn(CellsOfTextColumns(workbook[j].df)) # {}
        /\ MatchedIn(Headers(workbook[j].df))
             \ MatchedIn(CellsOfTextColumns(workbook[j].df)) # {}
        /\ sheet_categories[j] \in MatchedIn(CellsOfTextColumns(workbook[j].df))

\* the text of the pass that classified the sheet: its name, else the cells
\* of its text columns, else its headers
DecidingText(sheet) ==
    IF MatchedIn(sheet.name) # {} THEN sheet.name
    ELSE IF MatchedIn(CellsOfTextColumns(sheet.df)) # {} THEN CellsOfTextColumns(sheet.df)
    ELSE Headers(sheet.df)

Vendas == <<"v", "e", "n", "d", "a", "s">>

\* the categories matched in the text by a keyword other than 'vendas'
MatchedOtherwise(text) ==
    {category \in Range(KeywordCategories) :
        \E k \in 1..Len(CATEGORY_KEYWORDS[category]) :
            /\ CATEGORY_KEYWORDS[category][k] # Vendas
            /\ ContainsIgnoringCase(text, CATEGORY_KEYWORDS[category][k])}

\* C21: within the pass that classifies a sheet, of the categories whose
\* keywords match the text the one that comes first in the enumeration
\* order (revenue, variable costs, personnel, commercial, admin,
\* investments) is chosen; a text matched only through 'vendas' is
\* classified as revenue.
C21_EnumerationOrderBreaksTies ==
    \A i \in 1..Len(sheet_categories) :
        LET text == DecidingText(workbook[i])
        IN  /\ \A category \in MatchedIn(text) :
                  /\ sheet_categories[i] # None
                  /\ IndexOf(CategoryOrder, sheet_categories[i])
                        <= IndexOf(CategoryOrder, category)
            /\ (ContainsIgnoringCase(text, Vendas) /\ MatchedOtherwise(text) = {})
                  => sheet_categories[i] = REVENUE

\* a sheet matched only through 'vendas' and a sheet whose name has a
\* commercial keyword before a revenue keyword have been classified
C21_Witness ==
    \E i, j \in 1..Len(sheet_categories) :
        /\ ContainsIgnoringCase(DecidingText(workbook[i]), Vendas)
        /\ MatchedOtherwise(DecidingText(workbook[i])) = {}
        /\ sheet_categories[i] = REVENUE
        /\ workbook[j] = SheetMarketingReceita
        /\ sheet_categories[j] = REVENUE

\* a process_excel_data call has returned or raised
Processed == module = "excel_processor" /\ result.status # "none"

\* the categories the sheets with data of the workbook were classified into
Recognized(sheets) ==
    {IdentifySheetCategory(sheets[i].name, sheets[i].df) :
        i \in {j \in 1..Len(sheets) : ~DfEmpty(sheets[j].df)}} \ {None}

NoTabularData(sheets) == \A i \in 1..Len(sheets) : DfEmpty(sheets[i].df)

\* C22: a process_excel_data call raises ExcelValidationError when the bytes
\* cannot be read, when no sheet holds tabular data, when no sheet was
\* classified into a category, and when the table of a recognized category
\* has no numeric column; it succeeds only when none of these holds.
C22_StructuralFailuresRaise ==
    Processed =>
        LET failing ==
                \/ result.message = "read_error"
                \/ NoTabularData(workbook)
                \/ Recognized(workbook) = {}
                \/ \E k \in Recognized(workbook) :
                       NumericColumns(processor.financial_data[k]) = {}
        IN  /\ failing => result.status = "ExcelValidationError"
            /\ result.status = "success" => ~failing

\* the sheets with data that match no keyword
Unclassified(sheets) ==
    {i \in 1..Len(sheets) :
        /\ ~DfEmpty(sheets[i].df)
        /\ IdentifySheetCategory(sheets[i].name, sheets[i].df) = None}

\* the workbook without its unclassified sheets
Classifiable(sheets) ==
    SelectSeq(sheets, LAMBDA sheet :
        DfEmpty(sheet.df) \/ IdentifySheetCategory(sheet.name, sheet.df) # None)

\* the cells of the table are cells of the sheet: some column of the table
\* has the header of a column of the sheet and one of its cells
HoldsCellsOf(table, sheet) ==
    \E j \in 1..Len(table), c \in 1..Len(sheet.df) :
        /\ table[j].header = sheet.df[c].header
        /\ Range(table[j].cells) \cap Range(sheet.df[c].cells) # {}

\* C23: a sheet with data that matches no keyword contributes nothing: on
\* success the keys of the data are the categories the sheets of the workbook
\* were classified into, no table of the data holds cells of the unclassified
\* sheet, and the call ends as it does on the same processor without the
\* unclassified sheets when another sheet is classified.
C23_UnclassifiedSheetIsDropped ==
    [][\A content \in Contents :
          (ProcessCall(content) /\ Unclassified(content.sheets) # {}) =>
              /\ result'.status = "success" =>
                     /\ DOMAIN result'.data = Recognized(content.sheets)
                     /\ \A k \in DOMAIN result'.data, i \in Unclassified(content.sheets) :
                            ~HoldsCellsOf(result'.data[k], content.sheets[i])
              /\ Recognized(content.sheets) # {} =>
                     result'.status =
                         ProcessExcelData(processor,
                             [content EXCEPT !.sheets = Classifiable(content.sheets)]).result.status
      ]_vars

\* _extract_financial_data went through the sheets of the workbook
Extracted ==
    Processed /\ result.message \notin {"read_error", "no_valid_data"}

\* the sheet whose table the category holds after the extraction: the last
\* sheet with data classified into it
SheetOf(sheets, category) ==
    sheets[CHOOSE i \in 1..Len(sheets) :
              /\ ~DfEmpty(sheets[i].df)
              /\ IdentifySheetCategory(sheets[i].name, sheets[i].df) = category
              /\ \A j \in (i + 1)..Len(sheets) :
                     DfEmpty(sheets[j].df)
                       \/ IdentifySheetCategory(sheets[j].name, sheets[j].df) # category]

\* a column of texts of which some value is not a date
Unparseable(column) ==
    /\ column.dtype = "object"
    /\ \E r \in 1..Len(column.cells) : ~ParsesAsDate(column.cells[r])

\* C24: in the table stored for a classified sheet, a column whose header
\* contains 'data', 'período', 'mes' or 'mês' and whose values are no dates
\* has the values of the sheet (empty rows dropped), none replaced by a
\* null, and a numeric column of the sheet is numeric in the table.
C24_NormalizationKeepsWhatItCannotParse ==
    Extracted =>
        \A k \in Recognized(workbook) :
            LET original == DropNa(SheetOf(workbook, k).df)
                stored == processor.financial_data[k]
            IN  /\ Len(stored) = Len(original)
                /\ \A j \in 1..Len(original) :
                       /\ (IsDateColumn(original[j].header) /\ Unparseable(original[j]))
                              => stored[j].cells = original[j].cells
                       /\ original[j].dtype \in NumericDtypes
                              => stored[j].dtype \in NumericDtypes

\* C25: when a spreadsheet was classified with success, its categories
\* exported and the exported file classified by a new processor, the export
\* and the second classification succeed and the second classification
\* finds the categories of the first.
C25_ExportRoundTrip ==
    (module = "excel_processor" /\ result.status = "success"
        /\ export.again.status # "none") =>
        /\ export.status = "success"
        /\ export.again.status = "success"
        /\ export.again.categories = result.categories

\* C28: after every successful process_excel_data call, also a second or
\* later one on the same instance, the keys of the returned data are the ids
\* of the call's metadata.categories_found and total_categories is their
\* number; and a call whose sheets are classified into no category raises.
C28_DataIsOfThisCall ==
    Processed =>
        /\ result.status = "success" =>
               /\ DOMAIN result.data = result.metadata.categories_found
               /\ result.metadata.total_categories = Cardinality(DOMAIN result.data)
               /\ result.categories = DOMAIN result.data
        /\ (result.message # "read_error" /\ Recognized(workbook) = {}) =>
               result.status = "ExcelValidationError"

\* the scenario types for which a result is stored
Stored == Range(DictKeys(scenarios))

\* C27: after any sequence of generation calls on one generator,
\* scenarios_generated lists exactly the scenario types for which a result is
\* stored, each of them once; after generate_all_scenarios these are the four
\* types; get_scenario_data(t) returns the stored result of a generated t and
\* None for any other t.
C27_MetadataAgreesWithStoredScenarios ==
    /\ Range(scenarios_generated) = Stored
    /\ Len(scenarios_generated) = Cardinality(Stored)
    /\ response.op = "generate_all_scenarios" =>
           /\ Stored = ScenarioTypes
           /\ Len(scenarios_generated) = Cardinality(ScenarioTypes)
    /\ response.op = "get_scenario_data" =>
           IF response.scenario_type \in Range(scenarios_generated)
           THEN /\ response.status = "success"
                /\ response.data = DictGet(scenarios, response.scenario_type)
           ELSE response.status = "None"

\* every base category of the dataset has the same numeric columns
SameNumericColumns(data) ==
    \A k1, k2 \in BaseCategories \cap DOMAIN data :
        Range(NumericCols(data[k1])) = Range(NumericCols(data[k2]))

\* C29: in every scenario generated by scenario_generator.py whose base
\* categories all have the same numeric columns, total_margin is
\* total_revenue - total_costs and total_cashflow is total_margin -
\* total_expenses, whatever the number of rows of the tables.
C29_MetricsAreConsistent ==
    (/\ response.op = "generate_scenario"
     /\ response.status = "success"
     /\ SameNumericColumns(response.data))
    => /\ response.metrics.total_margin =
              response.metrics.total_revenue - response.metrics.total_costs
       /\ response.metrics.total_cashflow =
              response.metrics.total_margin - response.metrics.total_expenses

\* the requests whose handler has answered
Done == {r \in 1..Len(requests) : requests[r].pc = "done"}

\* C26: every endpoint that calls process_excel_data answers an
\* ExcelValidationError with a 4xx status, never with a 5xx status.
C26_ValidationErrorsAnswer4xx ==
    \A r \in Done :
        requests[r].process_result.status = "ExcelValidationError" =>
            /\ requests[r].status_code >= 400
            /\ requests[r].status_code < 500

\* the financial_data documents of the uploaded spreadsheet
Records == FinancialDataOf(db.financial_data, "s1")

\* C30: at most one financial_data document is ever created for the uploaded
\* spreadsheet, also with two process requests in flight; a request that
\* finds it processed does not process it again and returns the stored
\* result; financial_data_id refers to the document that exists.
C30_AtMostOneFinancialDataRecord ==
    /\ Len(Records) <= 1
    /\ \A r \in 1..Len(requests) :
           (requests[r].spreadsheet.found /\ requests[r].spreadsheet.doc.processed) =>
               /\ requests[r].process_result = NoResult
               /\ (r \in Done /\ requests[r].status_code = HTTP_200_OK) =>
                      requests[r].metadata = Head(Records).metadata
    /\ db.spreadsheets[1].processed =>
           /\ Len(Records) = 1
           /\ Head(Records).id = db.spreadsheets[1].financial_data_id

====
